---------------------------- MODULE Spec2Model ----------------------------
(***************************************************************************)
(* A model of the real-time core of lipsync-engine:                        *)
(*   - RingBuffer          (src/src/utils/EventEmitter.js, lines 95-224)   *)
(*   - FrequencyAnalyzer   (src/src/utils/EventEmitter.js, lines 264-486)  *)
(*   - the viseme tables   (src/src/core/visemes.js)                       *)
(*                                                                         *)
(* Samples are small integers (every one of them is exactly representable  *)
(* as a Float32, so storing one in a Float32Array and loading it again     *)
(* gives the same number).  A fresh Float32Array holds zeros.              *)
(***************************************************************************)
EXTENDS Integers, Sequences, FiniteSets, TLC

\* ------------------------------------------------------------- bounds --
\* Largest capacity a RingBuffer is constructed with.
MaxCap == 2
\* Longest sample array handed to write / writeOverflow, longest read target.
MaxLen == 3
\* Largest offset handed to read.
MaxOffset == 1
\* How far past capacity `available` is followed.
MaxExcess == 1

\* The non-zero sample values callers write.
Samples == {1, 2}

Min(a, b) == IF a <= b THEN a ELSE b

\* All sample arrays of length 0..MaxLen.
SampleArrays == UNION {[1..n -> Samples] : n \in 0..MaxLen}

\* new Float32Array(n): n zeros.
Zeros(n) == [i \in 1..n |-> 0]

VARIABLES
  \* --- RingBuffer fields
  capacity,    \* this.capacity
  buffer,      \* this.buffer, a function 0..capacity-1 -> sample
  readPtr,     \* this.readPtr
  writePtr,    \* this.writePtr
  available,   \* this.available
  \* --- the last completed RingBuffer call: its arguments and what it returned
  call,
  \* --- FrequencyAnalyzer fields
  opts,                \* this.opts: holdFrames, smoothingFactor, ...
  currentViseme,       \* this._currentViseme
  currentIntensity,    \* this._currentIntensity
  holdCounter,         \* this._holdCounter
  smoothedAmplitude,   \* this._smoothedAmplitude
  smoothedBands,       \* this._smoothedBands
  previousViseme,      \* this._previousViseme
  transitionProgress,  \* this._transitionProgress
  frameCount,          \* this._frameCount
  \* --- the frame the last analyze() returned, and what led to it
  frame,
  \* --- history of the analyze() calls since construction or reset()
  hist,
  \* --- the largest frame counter a returned frame has carried so far,
  \*     over the whole life of the analyzer (kept in SpecAnalyzerLife only)
  returned,
  \* --- a feeder inside write() and a renderer inside read(), interleaved
  feeder,     \* where the feeder is in write(): pc, samples, toWrite, i
  renderer,   \* where the renderer is in read(): pc, target, toRead, i
  offered,    \* how many samples the feeder has handed to write() so far
  accepted,   \* the samples write() calls have reported written, in order
  delivered,  \* the samples read() calls have returned, in order
  \* --- one _classifyViseme call on its own
  input,      \* its arguments: bands, intensity, this._smoothedAmplitude
  classified, \* what it returned (NoResult before the call)
  \* --- a LipSyncEngine and the browser around it
  engine,     \* the engine's fields (this.opts, this._initialized, ...)
  listeners,  \* EventEmitter #listeners: event -> listeners, in insertion order
  graph,      \* the connections between audio nodes, as pairs <<from, to>>
  initCalls,  \* init() calls suspended in an await, by the await they are in
  timers,     \* the animation-frame and interval callbacks still scheduled
  browser,    \* what exists outside the engine: contexts closed, nodes made
  log,        \* what the last call did: events emitted (and to whom),
              \* messages posted to the worklet, an error thrown
  lastPosition, \* the last 'position' message received since construction
                \* or the last reset() (zeros when there was none)
  \* --- one client connection of the WebSocket proxy (server.js)
  proxy       \* the two sockets' readyState, upstreamReady, pendingMessages,
              \* and what was received from the client and sent upstream

ringVars == <<capacity, buffer, readPtr, writePtr, available, call>>

anVars == <<opts, currentViseme, currentIntensity, holdCounter,
            smoothedAmplitude, smoothedBands, previousViseme,
            transitionProgress, frameCount, frame, hist>>

spscVars == <<feeder, renderer, offered, accepted, delivered>>

clsVars == <<input, classified>>

engVars == <<engine, listeners, graph, initCalls, timers, browser, log,
             lastPosition>>

vars == <<ringVars, anVars, returned, spscVars, clsVars, engVars, proxy>>

\* What a call on one object leaves alone: the other objects.
notRing == <<anVars, returned, spscVars, clsVars, engVars, proxy>>
notAnalyzer == <<ringVars, spscVars, clsVars, engVars, proxy>>
notSpsc == <<anVars, returned, clsVars, engVars, proxy>>
notClassifier == <<ringVars, anVars, returned, spscVars, engVars, proxy>>
notEngine == <<ringVars, anVars, returned, spscVars, clsVars, proxy>>
notProxy == <<ringVars, anVars, returned, spscVars, clsVars, engVars>>

\* The record of a call.  samples: the array given to write/writeOverflow;
\* len, offset, count, hasCount: read's target length, offset and count
\* (hasCount = FALSE when count is left undefined), peek's count;
\* ret: the returned number; out: read's target after the call, peek's
\* returned array; threw: the call raised an exception.
\* History kept for stating properties: pre is `available` before the call,
\* afterEmptyWrite says that the call made just before this one was a write
\* to an empty buffer.
CallRec(op, samples, len, offset, hasCount, count, ret, out, threw) ==
  [op |-> op, samples |-> samples, len |-> len, offset |-> offset,
   hasCount |-> hasCount, count |-> count, ret |-> ret, out |-> out,
   threw |-> threw, pre |-> available,
   afterEmptyWrite |-> (call.op = "write" /\ call.pre = 0)]

NoCall ==
  [op |-> "new", samples |-> <<>>, len |-> 0, offset |-> 0,
   hasCount |-> FALSE, count |-> 0, ret |-> 0, out |-> <<>>,
   threw |-> FALSE, pre |-> 0, afterEmptyWrite |-> FALSE]

\* ---------------------------------------------------------- RingBuffer --

\* get free()
free == capacity - available

\* write: const toWrite = Math.min(samples.length, this.free)
WriteCountUnclamped(len, fr) == len
WriteCount(len, fr) == Min(len, fr)

\* The copy loop of write: for (i = 0; i < toWrite; i++) { buffer[writePtr] =
\* samples[i]; writePtr = (writePtr + 1) % capacity }
RECURSIVE WriteLoop(_, _, _, _, _)
WriteLoop(buf, wp, samples, i, toWrite) ==
  IF i >= toWrite
    THEN [buffer |-> buf, writePtr |-> wp]
    ELSE WriteLoop([buf EXCEPT ![wp] = samples[i + 1]],
                   (wp + 1) % capacity, samples, i + 1, toWrite)

\* write(samples)
RingBuffer_write ==
  \E samples \in SampleArrays :
    LET toWrite == WriteCount(Len(samples), free)
        r       == WriteLoop(buffer, writePtr, samples, 0, toWrite)
    IN  /\ buffer' = r.buffer
        /\ writePtr' = r.writePtr
        /\ available' = available + toWrite
        /\ call' = CallRec("write", samples, 0, 0, FALSE, 0, toWrite, <<>>, FALSE)
        /\ UNCHANGED <<capacity, readPtr>>

\* One iteration of writeOverflow's loop on the state s = [buffer, readPtr,
\* writePtr, available, overwritten], for the sample x.
OverflowStepNoEvict(s, x) ==
  [buffer      |-> [s.buffer EXCEPT ![s.writePtr] = x],
   readPtr     |-> s.readPtr,
   writePtr    |-> (s.writePtr + 1) % capacity,
   available   |-> IF s.available >= capacity THEN s.available
                   ELSE s.available + 1,
   overwritten |-> IF s.available >= capacity THEN s.overwritten + 1
                   ELSE s.overwritten]
OverflowStep(s, x) ==
  [buffer      |-> [s.buffer EXCEPT ![s.writePtr] = x],
   readPtr     |-> IF s.available >= capacity
                   THEN (s.readPtr + 1) % capacity ELSE s.readPtr,
   writePtr    |-> (s.writePtr + 1) % capacity,
   available   |-> IF s.available >= capacity THEN s.available
                   ELSE s.available + 1,
   overwritten |-> IF s.available >= capacity THEN s.overwritten + 1
                   ELSE s.overwritten]

RECURSIVE OverflowLoop(_, _, _)
OverflowLoop(s, samples, i) ==
  IF i >= Len(samples) THEN s
  ELSE OverflowLoop(OverflowStep(s, samples[i + 1]), samples, i + 1)

\* writeOverflow(samples)
RingBuffer_writeOverflow ==
  \E samples \in SampleArrays :
    LET s0 == [buffer |-> buffer, readPtr |-> readPtr, writePtr |-> writePtr,
               available |-> available, overwritten |-> 0]
        r  == OverflowLoop(s0, samples, 0)
    IN  /\ buffer' = r.buffer
        /\ readPtr' = r.readPtr
        /\ writePtr' = r.writePtr
        /\ available' = r.available
        /\ call' = CallRec("writeOverflow", samples, 0, 0, FALSE, 0,
                           r.overwritten, <<>>, FALSE)
        /\ UNCHANGED capacity

\* read: const toRead = Math.min(count ?? (target.length - offset), available)
ReadCountUnclamped(len, offset, hasCount, count, avail) ==
  IF hasCount THEN count ELSE len - offset
ReadCount(len, offset, hasCount, count, avail) ==
  Min(IF hasCount THEN count ELSE len - offset, avail)

\* target[k] = v on a Float32Array of Len(target) elements (k counted from 0):
\* a store outside the array is ignored.
StoreTyped(target, k, v) ==
  IF k >= 0 /\ k < Len(target) THEN [target EXCEPT ![k + 1] = v] ELSE target

\* The copy loop of read: for (i = 0; i < toRead; i++) { target[offset + i] =
\* buffer[readPtr]; readPtr = (readPtr + 1) % capacity }
RECURSIVE ReadLoopCursorFirst(_, _, _, _, _, _)
ReadLoopCursorFirst(buf, rp, target, offset, i, toRead) ==
  IF i >= toRead
    THEN [target |-> target, readPtr |-> rp]
    ELSE ReadLoopCursorFirst(buf, (rp + 1) % capacity,
                  StoreTyped(target, offset + i, buf[(rp + 1) % capacity]),
                  offset, i + 1, toRead)
RECURSIVE ReadLoop(_, _, _, _, _, _)
ReadLoop(buf, rp, target, offset, i, toRead) ==
  IF i >= toRead
    THEN [target |-> target, readPtr |-> rp]
    ELSE ReadLoop(buf, (rp + 1) % capacity,
                  StoreTyped(target, offset + i, buf[rp]), offset, i + 1, toRead)

\* The arguments of a read call: <<target.length, offset, hasCount, count>>.
ReadArgsAny ==
  {a \in (0..MaxLen) \X (0..MaxOffset) \X BOOLEAN \X (-1..(MaxLen + 1)) :
     ~a[3] => a[4] = 0}

\* The resulting count (count ?? target.length - offset).
EffCount(a) == IF a[3] THEN a[4] ELSE a[1] - a[2]

\* Calls that ask for a non-negative number of samples.
ReadArgsNat == {a \in ReadArgsAny : EffCount(a) >= 0}

\* read(target, offset = 0, count), target a fresh Float32Array(len)
RingBuffer_read(Args) ==
  \E a \in Args :
    LET len    == a[1]
        offset == a[2]
        toRead == ReadCount(len, offset, a[3], a[4], available)
        r      == ReadLoop(buffer, readPtr, Zeros(len), offset, 0, toRead)
    IN  /\ available - toRead <= capacity + MaxExcess
        /\ readPtr' = r.readPtr
        /\ available' = available - toRead
        /\ call' = CallRec("read", <<>>, len, offset, a[3], a[4], toRead,
                           r.target, FALSE)
        /\ UNCHANGED <<capacity, buffer, writePtr>>

\* readOne()
RingBuffer_readOne ==
  IF available = 0
    THEN /\ call' = CallRec("readOne", <<>>, 0, 0, FALSE, 0, 0, <<>>, FALSE)
         /\ UNCHANGED <<capacity, buffer, readPtr, writePtr, available>>
    ELSE /\ readPtr' = (readPtr + 1) % capacity
         /\ available' = available - 1
         /\ call' = CallRec("readOne", <<>>, 0, 0, FALSE, 0, buffer[readPtr],
                            <<>>, FALSE)
         /\ UNCHANGED <<capacity, buffer, writePtr>>

\* The copy loop of peek, on a local cursor.
RECURSIVE PeekLoopCursorFirst(_, _, _, _, _)
PeekLoopCursorFirst(buf, ptr, result, i, n) ==
  IF i >= n THEN result
  ELSE PeekLoopCursorFirst(buf, (ptr + 1) % capacity,
                           StoreTyped(result, i, buf[(ptr + 1) % capacity]),
                           i + 1, n)
RECURSIVE PeekLoop(_, _, _, _, _)
PeekLoop(buf, ptr, result, i, n) ==
  IF i >= n THEN result
  ELSE PeekLoop(buf, (ptr + 1) % capacity, StoreTyped(result, i, buf[ptr]),
                i + 1, n)

\* peek(count): n = Math.min(count, available); new Float32Array(n) throws a
\* RangeError when n is negative.
RingBuffer_peek(Counts) ==
  \E count \in Counts :
    LET n == Min(count, available)
    IN  /\ call' = IF n < 0
                     THEN CallRec("peek", <<>>, 0, 0, TRUE, count, 0, <<>>, TRUE)
                     ELSE CallRec("peek", <<>>, 0, 0, TRUE, count, n,
                                  PeekLoop(buffer, readPtr, Zeros(n), 0, n),
                                  FALSE)
        /\ UNCHANGED <<capacity, buffer, readPtr, writePtr, available>>

\* clear()
RingBuffer_clear ==
  /\ readPtr' = 0
  /\ writePtr' = 0
  /\ available' = 0
  /\ call' = CallRec("clear", <<>>, 0, 0, FALSE, 0, 0, <<>>, FALSE)
  /\ UNCHANGED <<capacity, buffer>>

\* new RingBuffer(capacity), capacity >= 1
RingInit ==
  /\ capacity \in 1..MaxCap
  /\ buffer = [i \in 0..(capacity - 1) |-> 0]
  /\ readPtr = 0
  /\ writePtr = 0
  /\ available = 0
  /\ call = NoCall

\* new RingBuffer(capacity) with any small integer: new Float32Array(capacity)
\* throws a RangeError for a negative length and makes an empty array for 0.
\* When the constructor throws no object exists; `capacity` then holds the
\* argument and call.threw is TRUE.
CapacityArgs == (-1)..MaxCap

RingBuffer_new ==
  /\ capacity \in CapacityArgs
  /\ buffer = [i \in 0..(capacity - 1) |-> 0]
  /\ readPtr = 0
  /\ writePtr = 0
  /\ available = 0
  /\ call = [NoCall EXCEPT !.threw = (capacity < 0)]

\* The constructor returned a RingBuffer.
Exists == ~(call.op = "new" /\ call.threw)

\* The calls on a RingBuffer that exists.  writeOverflow is left out: on a
\* buffer of capacity 0 it computes (ptr + 1) % 0, which is NaN.
RingNewNext ==
  \/ Exists /\ RingBuffer_write /\ UNCHANGED notRing
  \/ Exists /\ RingBuffer_read(ReadArgsNat) /\ UNCHANGED notRing
  \/ Exists /\ RingBuffer_readOne /\ UNCHANGED notRing
  \/ Exists /\ RingBuffer_peek(0..(MaxLen + 1)) /\ UNCHANGED notRing
  \/ Exists /\ RingBuffer_clear /\ UNCHANGED notRing

\* Every RingBuffer call, read and peek with any integer arguments.
RingNextAny ==
  \/ RingBuffer_write /\ UNCHANGED notRing
  \/ RingBuffer_writeOverflow /\ UNCHANGED notRing
  \/ RingBuffer_read(ReadArgsAny) /\ UNCHANGED notRing
  \/ RingBuffer_readOne /\ UNCHANGED notRing
  \/ RingBuffer_peek(-1..(MaxLen + 1)) /\ UNCHANGED notRing
  \/ RingBuffer_clear /\ UNCHANGED notRing

\* Every RingBuffer call, read and peek asked for a count >= 0.
RingNext ==
  \/ RingBuffer_write /\ UNCHANGED notRing
  \/ RingBuffer_writeOverflow /\ UNCHANGED notRing
  \/ RingBuffer_read(ReadArgsNat) /\ UNCHANGED notRing
  \/ RingBuffer_readOne /\ UNCHANGED notRing
  \/ RingBuffer_peek(0..(MaxLen + 1)) /\ UNCHANGED notRing
  \/ RingBuffer_clear /\ UNCHANGED notRing

\* ---------------------------------------------------- viseme tables --
\* Weights and shape parameters are in thousandths: 0.35 is 350, 1 is 1000.

\* EXTENDED_VISEME_KEYS
EXTENDED_VISEME_KEYS ==
  {"sil", "PP", "FF", "TH", "DD", "kk", "CH", "SS", "nn", "RR",
   "aa", "E", "I", "O", "U"}

\* SIMPLE_VISEMES[k].extendedMap
SIMPLE_VISEMES ==
  [A |-> {"sil"}, B |-> {"PP", "nn"}, C |-> {"E", "I", "SS"},
   D |-> {"aa", "DD", "kk"}, E |-> {"O", "RR", "CH"},
   F |-> {"FF", "TH", "U"}]

\* EXTENDED_TO_SIMPLE[v] || 'A'
EXTENDED_TO_SIMPLE(v) ==
  IF \E k \in DOMAIN SIMPLE_VISEMES : v \in SIMPLE_VISEMES[k]
    THEN CHOOSE k \in DOMAIN SIMPLE_VISEMES : v \in SIMPLE_VISEMES[k]
    ELSE "A"

\* TRANSITION_WEIGHTS, as a function on the pairs <<from, to>> it lists.
TRANSITION_WEIGHTS ==
  ( <<"sil", "aa">> :> 300 @@ <<"sil", "E">> :> 300 @@ <<"sil", "I">> :> 300
    @@ <<"sil", "O">> :> 300 @@ <<"sil", "U">> :> 300
    @@ <<"sil", "PP">> :> 200 @@ <<"sil", "FF">> :> 200
    @@ <<"aa", "sil">> :> 400 @@ <<"aa", "E">> :> 500 @@ <<"aa", "O">> :> 600
    @@ <<"aa", "I">> :> 500 @@ <<"aa", "PP">> :> 300 @@ <<"aa", "SS">> :> 300
    @@ <<"PP", "aa">> :> 200 @@ <<"PP", "sil">> :> 200
    @@ <<"PP", "E">> :> 300 @@ <<"PP", "FF">> :> 400
    @@ <<"FF", "aa">> :> 300 @@ <<"FF", "PP">> :> 400 @@ <<"FF", "sil">> :> 200
    @@ <<"SS", "sil">> :> 200 @@ <<"SS", "aa">> :> 300 @@ <<"SS", "CH">> :> 600 )

\* The weight of a pair the table does not list.
DefaultWeight == 350

\* getTransitionWeight(from, to)
getTransitionWeightStuck(from, to) == 1000
getTransitionWeightSlow(from, to) == 700
getTransitionWeightReversed(from, to) ==
  IF <<to, from>> \in DOMAIN TRANSITION_WEIGHTS
    THEN TRANSITION_WEIGHTS[<<to, from>>]
    ELSE DefaultWeight
getTransitionWeight(from, to) ==
  IF <<from, to>> \in DOMAIN TRANSITION_WEIGHTS
    THEN TRANSITION_WEIGHTS[<<from, to>>]
    ELSE DefaultWeight

\* VISEME_SHAPES
Shape(o, w, r) == [open |-> o, width |-> w, round |-> r]
VISEME_SHAPES ==
  [v \in EXTENDED_VISEME_KEYS |->
     CASE v = "sil" -> Shape(0, 500, 0)
       [] v = "PP"  -> Shape(0, 400, 0)
       [] v = "FF"  -> Shape(50, 550, 0)
       [] v = "TH"  -> Shape(100, 500, 0)
       [] v = "DD"  -> Shape(200, 500, 0)
       [] v = "kk"  -> Shape(250, 450, 0)
       [] v = "CH"  -> Shape(150, 350, 600)
       [] v = "SS"  -> Shape(50, 600, 0)
       [] v = "nn"  -> Shape(150, 500, 0)
       [] v = "RR"  -> Shape(200, 400, 400)
       [] v = "aa"  -> Shape(900, 600, 0)
       [] v = "E"   -> Shape(500, 650, 0)
       [] v = "I"   -> Shape(250, 700, 0)
       [] v = "O"   -> Shape(600, 400, 800)
       [] v = "U"   -> Shape(200, 300, 900)]

\* ---------------------------------------------------- FrequencyAnalyzer --

\* DEFAULTS.  Amplitudes, band energies and intensities are in millionths
\* (0.015 is 15000); smoothing factors, like weights, progress and shapes, in
\* thousandths.
SilenceThreshold == 15000
SmoothingFactor == 350
IntensitySmoothing == 200

\* Largest holdFrames option an analyzer is constructed with.
MaxHold == 3
\* analyze() calls followed after construction or reset(): MaxVoiced of them
\* may carry sound, the ones up to MaxFrames carry silence.
MaxVoiced == 4
MaxFrames == 16

Bands(s, l, m, h, v) ==
  [sub |-> s, low |-> l, mid |-> m, high |-> h, veryHigh |-> v]

ZeroBands == Bands(0, 0, 0, 0, 0)

\* What the AnalyserNode holds when analyze() is called, as
\* calculateRMS(timeDomainData) and extractBandEnergies(frequencyData) see it.
ZeroInput == [amp |-> 0, bands |-> ZeroBands]

Inputs ==
  { ZeroInput,
    [amp |-> 30000,   bands |-> Bands(20000, 30000, 50000, 300000, 350000)],
    [amp |-> 300000,  bands |-> Bands(20000, 30000, 50000, 300000, 350000)],
    [amp |-> 1000000, bands |-> Bands(100000, 300000, 250000, 50000, 20000)],
    [amp |-> 100000,  bands |-> Bands(300000, 250000, 100000, 20000, 0)] }

\* smoothValue(current, target, factor)
smoothValue(current, target, factor) ==
  current + ((target - current) * (1000 - factor)) \div 1000

\* clamp(value, min, max)
clamp(value, lo, hi) == IF value < lo THEN lo ELSE IF value > hi THEN hi ELSE value

\* A confidence, kept as the fraction num / den.
ConfInverted(num, den) == [num |-> den, den |-> num]
Conf(num, den) == [num |-> num, den |-> den]

\* The sibilant split: veryHigh > high * 0.8
VeryHighDominatesUnscaled(veryHigh, high) == veryHigh > 8 * high
VeryHighDominates(veryHigh, high) == 10 * veryHigh > 8 * high

Abs(x) == IF x < 0 THEN -x ELSE x

\* _classifyViseme(bands, intensity); amplitude is this._smoothedAmplitude.
\* x > 0.55 * y is written 100 * x > 55 * y, and so on.
classifyViseme(bands, intensity, amplitude) ==
  LET sub  == bands.sub
      low  == bands.low
      mid  == bands.mid
      high == bands.high
      veryHigh == bands.veryHigh
      totalEnergy == sub + low + mid + high + veryHigh
      den == totalEnergy + 1000
  IN  IF totalEnergy < 10000 THEN [viseme |-> "sil", confidence |-> Conf(9, 10)]
      ELSE IF 100 * (high + veryHigh) > 55 * den /\ high > 150000
        THEN IF VeryHighDominates(veryHigh, high)
               THEN [viseme |-> "SS", confidence |-> Conf(high + veryHigh, den)]
               ELSE [viseme |-> "CH",
                     confidence |-> Conf(85 * (high + veryHigh), 100 * den)]
      ELSE IF 10 * (mid + high) > 5 * den /\ high > 100000 /\ low < 150000
        THEN [viseme |-> "FF", confidence |-> Conf(8 * (mid + high), 10 * den)]
      ELSE IF /\ intensity > 600000
              /\ 10 * (den - Abs(high - low)) > 7 * den
              /\ amplitude > 80000
        THEN IF low > mid
               THEN [viseme |-> "PP", confidence |-> Conf(6, 10)]
               ELSE [viseme |-> "DD", confidence |-> Conf(6, 10)]
      ELSE IF sub > 200000 /\ low > 150000 /\ high < 80000 /\ 10 * mid < 7 * low
        THEN [viseme |-> "nn", confidence |-> Conf(65, 100)]
      ELSE IF low > 200000 /\ mid > 150000 /\ intensity > 500000
        THEN [viseme |-> "aa", confidence |-> Conf(7, 10)]
      ELSE IF mid > low /\ mid > 150000 /\ intensity > 300000
        THEN [viseme |-> "E", confidence |-> Conf(65, 100)]
      ELSE IF sub > mid /\ low > mid /\ intensity > 300000
        THEN [viseme |-> "O", confidence |-> Conf(6, 10)]
      ELSE IF mid > 100000 /\ 10 * high > 5 * low /\ intensity > 200000
        THEN [viseme |-> "I", confidence |-> Conf(55, 100)]
      ELSE IF sub > 150000 /\ high < 50000
        THEN [viseme |-> "U", confidence |-> Conf(5, 10)]
      ELSE IF intensity > 500000 THEN [viseme |-> "aa", confidence |-> Conf(4, 10)]
      ELSE IF intensity > 300000 THEN [viseme |-> "E", confidence |-> Conf(35, 100)]
      ELSE IF intensity > 150000 THEN [viseme |-> "I", confidence |-> Conf(3, 10)]
      ELSE [viseme |-> "sil", confidence |-> Conf(5, 10)]

\* The silence gate: this._smoothedAmplitude < this.opts.silenceThreshold
IsSilentOnlyAtZero(amplitude, threshold) == amplitude <= 0
IsSilent(amplitude, threshold) == amplitude < threshold

\* The hold-off test: this._holdCounter < this.opts.holdFrames, on the
\* counter already incremented.
KeepsHoldingOneShort(counter, holdFrames) == counter + 1 < holdFrames
KeepsHoldingOneMore(counter, holdFrames) == counter <= holdFrames
KeepsHolding(counter, holdFrames) == counter < holdFrames

\* The shape of a frame, each component p + (c - p) * t, in millionths.
ShapeAtTarget(prev, cur, t) ==
  Shape(VISEME_SHAPES[cur].open * 1000, VISEME_SHAPES[cur].width * 1000,
        VISEME_SHAPES[cur].round * 1000)
ShapeAt(prev, cur, t) ==
  LET p == IF prev \in DOMAIN VISEME_SHAPES THEN VISEME_SHAPES[prev]
           ELSE VISEME_SHAPES["sil"]
      c == IF cur \in DOMAIN VISEME_SHAPES THEN VISEME_SHAPES[cur]
           ELSE VISEME_SHAPES["sil"]
  IN  Shape(p.open * 1000 + (c.open - p.open) * t,
            p.width * 1000 + (c.width - p.width) * t,
            p.round * 1000 + (c.round - p.round) * t)

\* The confidence _emitViseme gives a frame when it is handed none.
DefaultConfidence == Conf(5, 10)

\* _emitViseme(viseme, intensity, bands, confidence) in the state where
\* frameCount, smoothedAmplitude and smoothedBands already have the values
\* fc, amp and bands of this call.
emitViseme(viseme, intensity, confidence, fc, amp, bands) ==
  LET changed == viseme # currentViseme
      prev == IF changed THEN currentViseme ELSE previousViseme
      prog == IF changed THEN 0
              ELSE Min(1000, transitionProgress
                         + ((1000 - getTransitionWeight(previousViseme,
                                                        currentViseme)) * 3)
                             \div 10)
      inten == smoothValue(currentIntensity, intensity,
                           opts.intensitySmoothing)
  IN  /\ previousViseme' = prev
      /\ currentViseme' = viseme
      /\ transitionProgress' = prog
      /\ currentIntensity' = inten
      /\ frame' = [viseme |-> viseme,
                   simpleViseme |-> EXTENDED_TO_SIMPLE(viseme),
                   intensity |-> inten,
                   confidence |-> confidence,
                   amplitude |-> amp,
                   bands |-> bands,
                   shape |-> ShapeAt(prev, viseme, prog),
                   transition |-> [from |-> prev, to |-> viseme,
                                   progress |-> prog],
                   frame |-> fc]

\* No frame returned yet.
NoFrame ==
  [viseme |-> "sil", simpleViseme |-> "A", intensity |-> 0,
   confidence |-> Conf(0, 1), amplitude |-> 0, bands |-> ZeroBands,
   shape |-> Shape(0, 0, 0),
   transition |-> [from |-> "sil", to |-> "sil", progress |-> 0],
   frame |-> 0]

\* The history of the analyze() calls since construction or reset():
\*   gated      the last call returned through the silence gate
\*   proposed   the label the last call proposed: the classifier's, or the
\*              gate's "sil"
\*   changed    the last call changed the held viseme
\*   everChanged  some call changed the held viseme
\*   diffRun    how many calls in a row, the last one included, proposed a
\*              label other than the viseme held when they were made
\*              (counted up to holdFrames)
\*   passRun    how many calls in a row, the last one included, passed the
\*              silence gate (counted up to holdFrames)
\*   sameRun    how many calls in a row, the last one included, passed the
\*              gate and proposed the label the last one proposed (counted up
\*              to holdFrames)
\*   alternating  every call passed the gate and proposed a label other than
\*              the call before it
\*   zeroRun    how many calls in a row, the last one included, had all-zero
\*              input (counted up to MaxFrames)
\*   onlyZeros  every call had all-zero input
\*   heldBefore, counterBefore  the held viseme and the hold counter when
\*              the last call was made
\*   keptRun    how many calls in a row, the last one included, kept the
\*              held viseme and were made with transition progress below 1
NoHist ==
  [gated |-> FALSE, proposed |-> "sil", changed |-> FALSE,
   everChanged |-> FALSE, diffRun |-> 0, passRun |-> 0, sameRun |-> 0,
   alternating |-> TRUE, zeroRun |-> 0, onlyZeros |-> TRUE,
   heldBefore |-> "sil", counterBefore |-> 0, keptRun |-> 0]

\* keptRun after a call that leaves `held` as the held viseme.
KeptRun(held) ==
  IF held # currentViseme THEN 0
  ELSE IF transitionProgress < 1000 THEN hist.keptRun + 1
  ELSE hist.keptRun

NextHist(in, gated, proposed, held) ==
  [gated |-> gated,
   proposed |-> proposed,
   changed |-> held # currentViseme,
   everChanged |-> hist.everChanged \/ held # currentViseme,
   diffRun |-> IF proposed # currentViseme
                 THEN Min(opts.holdFrames, hist.diffRun + 1) ELSE 0,
   passRun |-> IF gated THEN 0 ELSE Min(opts.holdFrames, hist.passRun + 1),
   sameRun |-> IF gated THEN 0
               ELSE IF frameCount > 0 /\ ~hist.gated
                       /\ proposed = hist.proposed
                 THEN Min(opts.holdFrames, hist.sameRun + 1)
               ELSE 1,
   alternating |-> /\ hist.alternating
                   /\ ~gated
                   /\ (frameCount > 0 => proposed # hist.proposed),
   zeroRun |-> IF in = ZeroInput THEN Min(MaxFrames, hist.zeroRun + 1) ELSE 0,
   onlyZeros |-> hist.onlyZeros /\ in = ZeroInput,
   heldBefore |-> currentViseme,
   counterBefore |-> holdCounter,
   keptRun |-> KeptRun(held)]

\* analyze()
FrequencyAnalyzer_analyze ==
  \E in \in Inputs :
    /\ frameCount < (IF in = ZeroInput THEN MaxFrames ELSE MaxVoiced)
    /\ LET fc    == frameCount + 1
           amp   == smoothValue(smoothedAmplitude, in.amp,
                                opts.smoothingFactor)
           bands == [k \in DOMAIN in.bands |->
                       smoothValue(smoothedBands[k], in.bands[k],
                                   opts.smoothingFactor)]
           intensity == clamp(amp * 3, 0, 1000000)
           c     == classifyViseme(bands, intensity, amp)
       IN  /\ frameCount' = fc
           /\ smoothedAmplitude' = amp
           /\ smoothedBands' = bands
           /\ IF IsSilent(amp, opts.silenceThreshold)
                THEN /\ emitViseme("sil", 0, DefaultConfidence, fc, amp, bands)
                     /\ hist' = NextHist(in, TRUE, "sil", "sil")
                     /\ UNCHANGED holdCounter
                ELSE IF c.viseme # currentViseme
                       /\ KeepsHolding(holdCounter + 1, opts.holdFrames)
                  THEN /\ holdCounter' = holdCounter + 1
                       /\ emitViseme(currentViseme, intensity,
                                     DefaultConfidence, fc, amp, bands)
                       /\ hist' = NextHist(in, FALSE, c.viseme, currentViseme)
                  ELSE /\ holdCounter' = 0
                       /\ emitViseme(c.viseme, intensity, c.confidence, fc,
                                     amp, bands)
                       /\ hist' = NextHist(in, FALSE, c.viseme, c.viseme)
    /\ UNCHANGED opts

\* reset()
FrequencyAnalyzer_resetKeepsHold ==
  /\ currentViseme' = "sil"
  /\ currentIntensity' = 0
  /\ smoothedAmplitude' = 0
  /\ smoothedBands' = ZeroBands
  /\ previousViseme' = "sil"
  /\ transitionProgress' = 1000
  /\ frameCount' = 0
  /\ frame' = NoFrame
  /\ hist' = NoHist
  /\ UNCHANGED <<opts, holdCounter>>
FrequencyAnalyzer_resetKeepsCount ==
  /\ currentViseme' = "sil"
  /\ currentIntensity' = 0
  /\ holdCounter' = 0
  /\ smoothedAmplitude' = 0
  /\ smoothedBands' = ZeroBands
  /\ previousViseme' = "sil"
  /\ transitionProgress' = 1000
  /\ frame' = NoFrame
  /\ hist' = NoHist
  /\ UNCHANGED <<opts, frameCount>>
FrequencyAnalyzer_reset ==
  /\ currentViseme' = "sil"
  /\ currentIntensity' = 0
  /\ holdCounter' = 0
  /\ smoothedAmplitude' = 0
  /\ smoothedBands' = ZeroBands
  /\ previousViseme' = "sil"
  /\ transitionProgress' = 1000
  /\ frameCount' = 0
  /\ frame' = NoFrame
  /\ hist' = NoHist
  /\ UNCHANGED opts

\* The state of the analyzer fields after the constructor.
Constructed ==
  /\ currentViseme = "sil"
  /\ currentIntensity = 0
  /\ holdCounter = 0
  /\ smoothedAmplitude = 0
  /\ smoothedBands = ZeroBands
  /\ previousViseme = "sil"
  /\ transitionProgress = 1000
  /\ frameCount = 0
  /\ frame = NoFrame
  /\ hist = NoHist

\* new FrequencyAnalyzer(analyserNode, sampleRate, options)
AnalyzerInit ==
  /\ opts \in [holdFrames : 1..MaxHold,
               smoothingFactor : {0, SmoothingFactor},
               silenceThreshold : {SilenceThreshold},
               intensitySmoothing : {IntensitySmoothing}]
  /\ Constructed
  /\ returned = 0

\* An analyzer with the default options that is never called.
AnalyzerIdle ==
  /\ opts = [holdFrames |-> 2, smoothingFactor |-> SmoothingFactor,
             silenceThreshold |-> SilenceThreshold,
             intensitySmoothing |-> IntensitySmoothing]
  /\ Constructed
  /\ returned = 0

\* A RingBuffer of capacity 1 that is never called.
RingIdle ==
  /\ capacity = 1
  /\ buffer = [i \in 0..0 |-> 0]
  /\ readPtr = 0
  /\ writePtr = 0
  /\ available = 0
  /\ call = NoCall

AnalyzerNext ==
  \/ FrequencyAnalyzer_analyze /\ UNCHANGED <<returned, notAnalyzer>>
  \/ FrequencyAnalyzer_reset /\ UNCHANGED <<returned, notAnalyzer>>

\* _emitViseme(viseme, intensity, bands, confidence) alone, handed any
\* viseme key: every analyze() call ends with one such call.
FrequencyAnalyzer_emitViseme ==
  /\ \E viseme \in EXTENDED_VISEME_KEYS :
       /\ emitViseme(viseme, 0, DefaultConfidence, frameCount,
                     smoothedAmplitude, smoothedBands)
       /\ hist' = [hist EXCEPT !.keptRun = KeptRun(viseme)]
  /\ UNCHANGED <<opts, holdCounter, smoothedAmplitude, smoothedBands,
                 frameCount>>

TransitionNext ==
  FrequencyAnalyzer_emitViseme /\ UNCHANGED <<returned, notAnalyzer>>

\* The same calls, with the largest frame counter returned so far kept.
AnalyzerLifeNext ==
  \/ /\ FrequencyAnalyzer_analyze
     /\ returned' = IF frameCount' > returned THEN frameCount' ELSE returned
     /\ UNCHANGED notAnalyzer
  \/ FrequencyAnalyzer_reset /\ UNCHANGED <<returned, notAnalyzer>>
\* ------------------------------------------- feeder and renderer (SPSC) --
\* One feeder calling write() and one renderer calling read() on the same
\* RingBuffer with no lock.  A step is one statement that touches the shared
\* fields: the read of this.available that fixes toWrite or toRead, one
\* iteration of a copy loop (one sample), one update of this.available (a
\* single atomic add or subtract).  writePtr is touched by the feeder only and
\* readPtr by the renderer only, so their updates ride with the copy.

\* Samples the feeder hands to write() over a run; the k-th sample offered is
\* the number k, so that a lost, repeated or stale sample shows.
MaxOffered == 5

IdleFeeder == [pc |-> "idle", samples |-> <<>>, toWrite |-> 0, i |-> 0]
IdleRenderer == [pc |-> "idle", target |-> <<>>, toRead |-> 0, i |-> 0]

\* write, line 143: const toWrite = Math.min(samples.length, this.free)
Feeder_begin ==
  /\ feeder.pc = "idle"
  /\ \E n \in 0..MaxLen :
       /\ offered + n <= MaxOffered
       /\ feeder' = [pc |-> "copy",
                     samples |-> [k \in 1..n |-> offered + k],
                     toWrite |-> WriteCount(n, free),
                     i |-> 0]
       /\ offered' = offered + n
  /\ UNCHANGED <<ringVars, renderer, accepted, delivered>>

\* write, lines 144-147: one iteration of the copy loop
Feeder_copy ==
  /\ feeder.pc = "copy"
  /\ feeder.i < feeder.toWrite
  /\ buffer' = [buffer EXCEPT ![writePtr] = feeder.samples[feeder.i + 1]]
  /\ writePtr' = (writePtr + 1) % capacity
  /\ feeder' = [feeder EXCEPT !.i = @ + 1]
  /\ UNCHANGED <<capacity, readPtr, available, call,
                 renderer, offered, accepted, delivered>>

\* write, lines 148-149: this.available += toWrite; return toWrite
Feeder_return ==
  /\ feeder.pc = "copy"
  /\ feeder.i >= feeder.toWrite
  /\ available' = available + feeder.toWrite
  /\ accepted' = accepted \o SubSeq(feeder.samples, 1, feeder.toWrite)
  /\ feeder' = IdleFeeder
  /\ UNCHANGED <<capacity, buffer, readPtr, writePtr, call,
                 renderer, offered, delivered>>

\* read, line 181: const toRead = Math.min(count ?? ..., this.available),
\* called as read(new Float32Array(n))
Renderer_begin ==
  /\ renderer.pc = "idle"
  /\ \E n \in 0..MaxLen :
       renderer' = [pc |-> "copy",
                    target |-> Zeros(n),
                    toRead |-> ReadCount(n, 0, FALSE, 0, available),
                    i |-> 0]
  /\ UNCHANGED <<ringVars, feeder, offered, accepted, delivered>>

\* read, lines 182-185: one iteration of the copy loop
Renderer_copy ==
  /\ renderer.pc = "copy"
  /\ renderer.i < renderer.toRead
  /\ renderer' = [renderer EXCEPT
                    !.target = StoreTyped(@, renderer.i, buffer[readPtr]),
                    !.i = @ + 1]
  /\ readPtr' = (readPtr + 1) % capacity
  /\ UNCHANGED <<capacity, buffer, writePtr, available, call,
                 feeder, offered, accepted, delivered>>

\* read, lines 186-187: this.available -= toRead; return toRead
Renderer_return ==
  /\ renderer.pc = "copy"
  /\ renderer.i >= renderer.toRead
  /\ available' = available - renderer.toRead
  /\ delivered' = delivered
                    \o SubSeq(renderer.target, 1,
                              Min(renderer.toRead, Len(renderer.target)))
  /\ renderer' = IdleRenderer
  /\ UNCHANGED <<capacity, buffer, readPtr, writePtr, call,
                 feeder, offered, accepted>>

\* Nobody is inside write() or read().
SpscIdle ==
  /\ feeder = IdleFeeder
  /\ renderer = IdleRenderer
  /\ offered = 0
  /\ accepted = <<>>
  /\ delivered = <<>>

SpscNext ==
  \/ Feeder_begin /\ UNCHANGED notSpsc
  \/ Feeder_copy /\ UNCHANGED notSpsc
  \/ Feeder_return /\ UNCHANGED notSpsc
  \/ Renderer_begin /\ UNCHANGED notSpsc
  \/ Renderer_copy /\ UNCHANGED notSpsc
  \/ Renderer_return /\ UNCHANGED notSpsc

\* ------------------------------------------------ _classifyViseme alone --
\* One call of _classifyViseme on arguments drawn from a grid that has a
\* level on each side of every threshold of the rule cascade.

BandLevels == {0, 3000, 90000, 160000, 300000, 1000000}
IntensityLevels == {0, 160000, 250000, 400000, 700000, 1000000}
AmplitudeLevels == {0, 80000, 1000000}

\* The bands of the sibilant scenario: sub 0.02, low 0.03, mid 0.05,
\* high 0.30, veryHigh 0.35.
SibilantBands == Bands(20000, 30000, 50000, 300000, 350000)

ClassifierInputs ==
  [bands : [sub : BandLevels, low : BandLevels, mid : BandLevels,
            high : BandLevels, veryHigh : BandLevels]
           \cup {SibilantBands},
   intensity : IntensityLevels,
   amplitude : AmplitudeLevels]

NoResult == [viseme |-> "none", confidence |-> Conf(0, 1)]

\* No _classifyViseme call on its own is made.
ClassifierIdle ==
  /\ input = [bands |-> ZeroBands, intensity |-> 0, amplitude |-> 0]
  /\ classified = NoResult

ClassifierInit ==
  /\ input \in ClassifierInputs
  /\ classified = NoResult

\* this._classifyViseme(bands, intensity)
Classify ==
  /\ classified = NoResult
  /\ classified' = classifyViseme(input.bands, input.intensity, input.amplitude)
  /\ UNCHANGED input

ClassifierNext == Classify /\ UNCHANGED notClassifier

\* ------------------------------------------------------- LipSyncEngine --
\* The engine with the browser objects it drives: audio nodes and their
\* connections, the AudioContext, scheduled callbacks, the worklet's message
\* port.  The FrequencyAnalyzer it owns is modelled on its own above; here an
\* analysis frame is what the engine adds to it and emits.

\* init() calls made over a run.
MaxInits == 2

\* The functions registered as listeners, and the events they are
\* registered for.
Fns == {"f"}
ListenedEvents == {"destroyed"}

\* Values a 'position' message carries: timeMs, bufferLevel (in tenths).
TimeValues == {7, 9}
LevelValues == {5}

\* new LipSyncEngine(options): the fields the constructor sets.  pipeline is
\* 0 while workletNode, analyserNode, gainNode and analyzer are null, and the
\* number of the pipeline init() built otherwise; animFrameId and intervalId
\* are 0 when null.
NewEngine(options) ==
  [opts |-> options, audioContext |-> "null", pipeline |-> 0,
   mediaSource |-> FALSE, elementSource |-> FALSE,
   initialized |-> FALSE, analyzing |-> FALSE,
   animFrameId |-> 0, intervalId |-> 0, inputMode |-> "null",
   playbackTimeMs |-> 0, bufferLevel |-> 0, destroyed |-> FALSE]

EngineOptions ==
  [disablePlayback : BOOLEAN, analysisMode : {"raf", "interval"}]

\* Audio nodes: the nodes of pipeline k, the attached sources, the context's
\* destination.
WorkletNode(k) == <<"worklet", k>>
AnalyserNode(k) == <<"analyser", k>>
GainNode(k) == <<"gain", k>>
MediaSource == <<"mediaSource", 0>>
ElementSource == <<"elementSource", 0>>
Destination == <<"destination", 0>>

\* node.disconnect(): every connection that leaves the node goes.
Disconnect(g, node) == {c \in g : c[1] # node}

\* The nodes audio reaches from the nodes in `from`.
RECURSIVE Reaches(_, _)
Reaches(g, from) ==
  LET next == from \cup {c[2] : c \in {d \in g : d[1] \in from}}
  IN  IF next = from THEN from ELSE Reaches(g, next)

\* Entries of the log of a call.
Emitted(event, to, data) ==
  [kind |-> "emit", event |-> event, to |-> to, data |-> data]
Posted(type) == [kind |-> "post", event |-> type, to |-> <<>>, data |-> <<>>]
Thrown == [kind |-> "throw", event |-> "Error", to |-> <<>>, data |-> <<>>]

\* EventEmitter.emit(event, ...args): the listeners it calls, in order: those
\* of the event, then those of '*'.
EmitTo(ls, event) ==
  (IF event \in DOMAIN ls THEN ls[event] ELSE <<>>)
    \o (IF "*" \in DOMAIN ls THEN ls["*"] ELSE <<>>)
Emit(ls, event, data) == Emitted(event, EmitTo(ls, event), data)

\* Is x among the elements of the sequence s; s without x.
Among(x, s) == \E i \in 1..Len(s) : s[i] = x
Without(s, x) == SelectSeq(s, LAMBDA y : y # x)

\* EventEmitter.on(event, fn): the listeners it leaves.
On(ls, event, fn) ==
  IF event \in DOMAIN ls
    THEN [ls EXCEPT ![event] = IF Among(fn, @) THEN @ ELSE Append(@, fn)]
    ELSE [e \in DOMAIN ls \cup {event} |->
            IF e = event THEN <<fn>> ELSE ls[e]]

\* EventEmitter.on(event, fn)
EventEmitter_on ==
  /\ \E event \in ListenedEvents, fn \in Fns :
       listeners' = On(listeners, event, fn)
  /\ log' = <<>>
  /\ UNCHANGED <<engine, graph, initCalls, timers, browser, lastPosition>>

\* EventEmitter.off(event, fn)
EventEmitter_off ==
  /\ \E event \in ListenedEvents, fn \in Fns :
       listeners' =
         IF event \notin DOMAIN listeners THEN listeners
         ELSE IF Without(listeners[event], fn) = <<>>
           THEN [e \in DOMAIN listeners \ {event} |-> listeners[e]]
         ELSE [listeners EXCEPT ![event] = Without(@, fn)]
  /\ log' = <<>>
  /\ UNCHANGED <<engine, graph, initCalls, timers, browser, lastPosition>>

\* EventEmitter.removeAllListeners(): #listeners.clear()
NoListeners == [e \in {} |-> <<>>]

\* init(existingContext), up to its first await.  The context it creates or
\* is given may be suspended (await resume()) or not (await addModule()).
LipSyncEngine_init ==
  /\ browser.inits < MaxInits
  /\ \E existing \in {"given", "none"}, suspended \in BOOLEAN :
       IF engine.initialized
         THEN /\ log' = <<>>
              /\ browser' = [browser EXCEPT !.inits = @ + 1]
              /\ UNCHANGED <<engine, initCalls>>
       ELSE IF engine.destroyed
         THEN /\ log' = <<Thrown>>
              /\ browser' = [browser EXCEPT !.inits = @ + 1]
              /\ UNCHANGED <<engine, initCalls>>
       ELSE /\ engine' = [engine EXCEPT !.audioContext =
                            IF existing = "given" THEN "given" ELSE "own"]
            /\ browser' = [browser EXCEPT
                             !.inits = @ + 1,
                             !.contexts = @ + (IF existing = "given"
                                                 THEN 0 ELSE 1)]
            /\ initCalls' = IF suspended
                              THEN [initCalls EXCEPT !.resume = @ + 1]
                              ELSE [initCalls EXCEPT !.addModule = @ + 1]
            /\ log' = <<>>
  /\ UNCHANGED <<listeners, graph, timers, lastPosition>>

\* init(), resumed after await this.audioContext.resume(): it goes on to
\* this.audioContext.audioWorklet.addModule(workletUrl), which throws when
\* this.audioContext has become null.
LipSyncEngine_init_resumed ==
  /\ initCalls.resume > 0
  /\ IF engine.audioContext = "null"
       THEN /\ initCalls' = [initCalls EXCEPT !.resume = @ - 1]
            /\ log' = <<Thrown>>
       ELSE /\ initCalls' = [initCalls EXCEPT !.resume = @ - 1,
                                              !.addModule = @ + 1]
            /\ log' = <<>>
  /\ UNCHANGED <<engine, listeners, graph, timers, browser, lastPosition>>

\* The connections init() makes: Worklet -> Analyser, and
\* Analyser -> Gain -> Destination unless opts.disablePlayback.
InitConnections(k, disablePlayback) ==
  {<<WorkletNode(k), AnalyserNode(k)>>}
    \cup (IF disablePlayback THEN {}
          ELSE {<<AnalyserNode(k), GainNode(k)>>,
                <<GainNode(k), Destination>>})

\* init(), resumed after await addModule(): the module failed to load, or
\* this.audioContext has become null (new AudioWorkletNode throws), or the
\* pipeline is built.
LipSyncEngine_init_loaded ==
  /\ initCalls.addModule > 0
  /\ initCalls' = [initCalls EXCEPT !.addModule = @ - 1]
  /\ \E loaded \in BOOLEAN :
       IF ~loaded \/ engine.audioContext = "null"
         THEN /\ log' = <<Thrown>>
              /\ UNCHANGED <<engine, graph, browser>>
         ELSE LET k == browser.pipelines + 1
              IN  /\ engine' = [engine EXCEPT !.pipeline = k,
                                              !.initialized = TRUE,
                                              !.inputMode = "stream"]
                  /\ graph' = graph
                                \cup InitConnections(k,
                                       engine.opts.disablePlayback)
                  /\ browser' = [browser EXCEPT !.pipelines = k]
                  /\ log' = <<Emit(listeners, "initialized", <<>>)>>
  /\ UNCHANGED <<listeners, timers, lastPosition>>

\* _ensureInitialized(): TRUE when it returns, FALSE when it throws.
ensureInitialized(e) == e.initialized

\* _disconnectSources()
DisconnectSources(g) == Disconnect(Disconnect(g, MediaSource), ElementSource)

\* attachStream(stream)
LipSyncEngine_attachStream ==
  /\ IF ~ensureInitialized(engine)
       THEN /\ log' = <<Thrown>>
            /\ UNCHANGED <<engine, graph>>
       ELSE /\ engine' = [engine EXCEPT !.mediaSource = TRUE,
                                        !.elementSource = FALSE,
                                        !.inputMode = "media"]
            /\ graph' = DisconnectSources(graph)
                          \cup {<<MediaSource, AnalyserNode(engine.pipeline)>>}
            /\ log' = <<Emit(listeners, "sourceAttached", <<"stream">>)>>
  /\ UNCHANGED <<listeners, initCalls, timers, browser, lastPosition>>

\* attachElement(element)
LipSyncEngine_attachElement ==
  /\ IF ~ensureInitialized(engine)
       THEN /\ log' = <<Thrown>>
            /\ UNCHANGED <<engine, graph>>
       ELSE /\ engine' = [engine EXCEPT !.mediaSource = FALSE,
                                        !.elementSource = TRUE,
                                        !.inputMode = "element"]
            /\ graph' = DisconnectSources(graph)
                          \cup {<<ElementSource,
                                  AnalyserNode(engine.pipeline)>>,
                                <<AnalyserNode(engine.pipeline),
                                  Destination>>}
            /\ log' = <<Emit(listeners, "sourceAttached", <<"element">>)>>
  /\ UNCHANGED <<listeners, initCalls, timers, browser, lastPosition>>

\* feedAudio(samples, inputSampleRate); valid says that samples is one of
\* the accepted array types.
LipSyncEngine_feedAudio ==
  /\ \E valid \in BOOLEAN :
       log' = IF ~ensureInitialized(engine) \/ ~valid THEN <<Thrown>>
              ELSE <<Posted("audio")>>
  /\ UNCHANGED <<engine, listeners, graph, initCalls, timers, browser,
                 lastPosition>>

\* requestAnimationFrame / setInterval return an id no scheduled callback of
\* that kind and no field of the engine holds.
FreshId(kind, e, ts) ==
  LET used == {t.id : t \in {u \in ts : u.kind = kind}}
                \cup {IF kind = "raf" THEN e.animFrameId ELSE e.intervalId}
  IN  CHOOSE n \in 1..(Cardinality(used) + 1) : n \notin used

Timer(kind, id) == [kind |-> kind, id |-> id]

\* What a call works on and leaves behind: the fields of the engine, the
\* scheduled callbacks, the listeners, the effects so far, and whether an
\* exception is propagating.
Current ==
  [engine |-> engine, timers |-> timers, listeners |-> listeners,
   log |-> <<>>, threw |-> FALSE]

Throw(w) == [w EXCEPT !.threw = TRUE, !.log = Append(@, Thrown)]

\* Listeners that call the engine back: "restart" calls startAnalysis(),
\* "stop" calls stopAnalysis().  They are registered for these events.
Callers == {"restart"}
CallerEvents == {"analysisStopped"}
\* Listeners of 'viseme' that call the engine back, and how many scheduled
\* callbacks there may be when a further one is asked for.
VisemeCallers == {"stop", "restart"}
MaxLoops == 2

\* stopAnalysis(): what it leaves of the engine's fields and of the
\* scheduled callbacks.
StopAnalysisEngine(e) ==
  [e EXCEPT !.analyzing = FALSE, !.animFrameId = 0, !.intervalId = 0]
StopAnalysisTimers(e, ts) ==
  ts \ {Timer("raf", e.animFrameId), Timer("interval", e.intervalId)}

RECURSIVE startAnalysis(_), stopAnalysis(_), emit(_, _, _)
RECURSIVE callListeners(_, _, _)

\* A listener is called: fn(...args).
listener(fn, w) ==
  IF fn = "restart" THEN startAnalysis(w)
  ELSE IF fn = "stop" THEN stopAnalysis(w)
  ELSE w

\* for (const fn of set) fn(...args): an exception a listener throws ends
\* the loop and propagates.
callListeners(w, to, i) ==
  IF i > Len(to) \/ w.threw THEN w
  ELSE callListeners(listener(to[i], w), to, i + 1)

\* EventEmitter.emit(event, ...args) with the calls its listeners make.
emit(w, event, data) ==
  LET to == EmitTo(w.listeners, event)
  IN  callListeners([w EXCEPT !.log = Append(@, Emitted(event, to, data))],
                    to, 1)

\* startAnalysis()
startAnalysis(w) ==
  IF w.engine.analyzing THEN w
  ELSE IF ~ensureInitialized(w.engine) THEN Throw(w)
  ELSE LET kind == IF w.engine.opts.analysisMode = "raf" THEN "raf"
                   ELSE "interval"
           id == FreshId(kind, w.engine, w.timers)
       IN  emit([w EXCEPT
                   !.engine = IF kind = "raf"
                                THEN [@ EXCEPT !.analyzing = TRUE,
                                               !.animFrameId = id]
                                ELSE [@ EXCEPT !.analyzing = TRUE,
                                               !.intervalId = id],
                   !.timers = @ \cup {Timer(kind, id)}],
                "analysisStarted", <<>>)

\* stopAnalysis()
stopAnalysis(w) ==
  emit([w EXCEPT !.engine = StopAnalysisEngine(@),
                 !.timers = StopAnalysisTimers(w.engine, @)],
       "analysisStopped", <<>>)

\* _analyzeFrame(): const frame = this.analyzer.analyze(), which throws a
\* TypeError when this.analyzer is null; frame.timeMs = this._playbackTimeMs;
\* frame.bufferLevel = this._bufferLevel; this.emit('viseme', frame)
StampFrame(e) == [timeMs |-> e.playbackTimeMs, bufferLevel |-> e.bufferLevel]
analyzeFrame(w) ==
  IF w.engine.pipeline = 0 THEN Throw(w)
  ELSE emit(w, "viseme", StampFrame(w.engine))

\* EventEmitter.on(event, fn) with a listener that calls the engine back.
EventEmitter_on_caller ==
  /\ \E event \in CallerEvents, fn \in Callers :
       listeners' = On(listeners, event, fn)
  /\ log' = <<>>
  /\ UNCHANGED <<engine, graph, initCalls, timers, browser, lastPosition>>

\* EventEmitter.on('viseme', fn) with a listener that calls the engine back.
EventEmitter_on_viseme ==
  /\ \E fn \in VisemeCallers : listeners' = On(listeners, "viseme", fn)
  /\ log' = <<>>
  /\ UNCHANGED <<engine, graph, initCalls, timers, browser, lastPosition>>

\* The call leaves w behind.
Leaves(w) ==
  /\ engine' = w.engine
  /\ timers' = w.timers
  /\ listeners' = w.listeners
  /\ log' = w.log

\* startAnalysis() is called.
LipSyncEngine_startAnalysis ==
  /\ Leaves(startAnalysis(Current))
  /\ UNCHANGED <<graph, initCalls, browser, lastPosition>>

\* stopAnalysis() is called.
LipSyncEngine_stopAnalysis ==
  /\ Leaves(stopAnalysis(Current))
  /\ UNCHANGED <<graph, initCalls, browser, lastPosition>>

\* if (!this._analyzing) return; at the head of both callbacks.
TickRunsAlways(e) == TRUE
TickRuns(e) == e.analyzing

\* The callback of _startRAFLoop fires: it is no longer scheduled; unless
\* _analyzeFrame throws, it schedules itself again.
LipSyncEngine_rafTick ==
  /\ \E t \in timers :
       /\ t.kind = "raf"
       /\ LET fired == [Current EXCEPT !.timers = @ \ {t}]
              w == analyzeFrame(fired)
              id == FreshId("raf", w.engine, w.timers)
          IN  IF ~TickRuns(engine) THEN Leaves(fired)
              ELSE IF w.threw THEN Leaves(w)
              ELSE Leaves([w EXCEPT !.engine.animFrameId = id,
                                    !.timers = @ \cup {Timer("raf", id)}])
  /\ UNCHANGED <<graph, initCalls, browser, lastPosition>>

\* The callback of _startIntervalLoop fires.
LipSyncEngine_intervalTick ==
  /\ \E t \in timers :
       /\ t.kind = "interval"
       /\ IF ~TickRuns(engine) THEN Leaves(Current)
          ELSE Leaves(analyzeFrame(Current))
  /\ UNCHANGED <<graph, initCalls, browser, lastPosition>>

\* Messages the worklet posts to the engine.
PositionMessages ==
  [type : {"position"}, timeMs : TimeValues, bufferLevel : LevelValues]
OtherMessages ==
  [type : {"playbackStarted", "playbackEnded", "bufferUnderrun",
           "bufferOverflow", "ready"},
   timeMs : {0}, bufferLevel : {0}]

\* _onWorkletMessage, case 'position': the two fields it stores.
OnPositionKeepsLevel(e, data) == [e EXCEPT !.playbackTimeMs = data.timeMs]
OnPosition(e, data) ==
  [e EXCEPT !.playbackTimeMs = data.timeMs,
            !.bufferLevel = data.bufferLevel]

\* The event _onWorkletMessage emits for a message other than 'position'.
WorkletEvent(type) == IF type = "ready" THEN "workletReady" ELSE type

\* _onWorkletMessage(data): what it does to the engine.
onWorkletMessage(data) ==
  IF data.type = "position"
    THEN /\ engine' = OnPosition(engine, data)
         /\ lastPosition' = [timeMs |-> data.timeMs,
                             bufferLevel |-> data.bufferLevel]
         /\ log' = <<Emit(listeners, "position",
                          [timeMs |-> data.timeMs,
                           bufferLevel |-> data.bufferLevel])>>
    ELSE /\ log' = <<Emit(listeners, WorkletEvent(data.type), <<>>)>>
         /\ UNCHANGED <<engine, lastPosition>>

\* _onWorkletMessage(data), called by the port of a worklet node init() made
LipSyncEngine_onWorkletMessage ==
  /\ browser.pipelines > 0
  /\ \E data \in PositionMessages \cup OtherMessages : onWorkletMessage(data)
  /\ UNCHANGED <<listeners, graph, initCalls, timers, browser>>

\* this.workletNode?.port.postMessage({ type })
PostToWorklet(type) == IF engine.pipeline > 0 THEN <<Posted(type)>> ELSE <<>>

\* setVolume(value)
LipSyncEngine_setVolume ==
  /\ log' = PostToWorklet("setVolume")
  /\ UNCHANGED <<engine, listeners, graph, initCalls, timers, browser,
                 lastPosition>>

\* clearBuffer()
LipSyncEngine_clearBuffer ==
  /\ log' = PostToWorklet("clear")
  /\ UNCHANGED <<engine, listeners, graph, initCalls, timers, browser,
                 lastPosition>>

\* play()
LipSyncEngine_play ==
  /\ log' = PostToWorklet("start")
  /\ UNCHANGED <<engine, listeners, graph, initCalls, timers, browser,
                 lastPosition>>

\* pause()
LipSyncEngine_pause ==
  /\ log' = PostToWorklet("stop")
  /\ UNCHANGED <<engine, listeners, graph, initCalls, timers, browser,
                 lastPosition>>

NoPosition == [timeMs |-> 0, bufferLevel |-> 0]

\* reset(): what it does to the engine.
EngineReset ==
  /\ engine' = [engine EXCEPT !.playbackTimeMs = 0, !.bufferLevel = 0]
  /\ lastPosition' = NoPosition
  /\ log' = PostToWorklet("reset") \o <<Emit(listeners, "reset", <<>>)>>

\* reset()
LipSyncEngine_reset ==
  /\ EngineReset
  /\ UNCHANGED <<listeners, graph, initCalls, timers, browser>>

\* The two directions of the worklet node's message port.  browser.outbox
\* holds the messages the engine posted that the worklet has not processed
\* yet, browser.inbox those the worklet posted that the engine has not
\* received yet, in the order posted.  A message in the inbox is marked
\* `stale` when a 'reset' was posted that the worklet had not processed when
\* it posted the message.  At most MaxInFlight messages wait in a direction.
MaxInFlight == 2

\* The worklet posts { type: 'position', timeMs, bufferLevel }.
Worklet_postPosition ==
  /\ engine.pipeline > 0
  /\ Len(browser.inbox) < MaxInFlight
  /\ \E data \in PositionMessages :
       browser' = [browser EXCEPT !.inbox =
                     Append(@, [data |-> data,
                                stale |-> browser.outbox # <<>>])]
  /\ log' = <<>>
  /\ UNCHANGED <<engine, listeners, graph, initCalls, timers, lastPosition>>

\* The worklet processes the oldest message posted to it.
Worklet_onmessage ==
  /\ browser.outbox # <<>>
  /\ browser' = [browser EXCEPT !.outbox = Tail(@)]
  /\ log' = <<>>
  /\ UNCHANGED <<engine, listeners, graph, initCalls, timers, lastPosition>>

\* this.workletNode.port.onmessage = (e) => this._onWorkletMessage(e.data):
\* the oldest message the worklet posted is delivered.
LipSyncEngine_port_onmessage ==
  /\ browser.inbox # <<>>
  /\ onWorkletMessage(Head(browser.inbox).data)
  /\ browser' = [browser EXCEPT !.inbox = Tail(@)]
  /\ UNCHANGED <<listeners, graph, initCalls, timers>>

\* reset() with its message to the worklet in flight.
LipSyncEngine_reset_posted ==
  /\ Len(browser.outbox) < MaxInFlight
  /\ EngineReset
  /\ browser' =
       IF engine.pipeline = 0 THEN browser
       ELSE [browser EXCEPT
               !.outbox = Append(@, "reset"),
               !.inbox = [i \in DOMAIN @ |-> [@[i] EXCEPT !.stale = TRUE]]]
  /\ UNCHANGED <<listeners, graph, initCalls, timers>>

\* destroy()
LipSyncEngine_destroy ==
  /\ IF engine.destroyed
       THEN /\ log' = <<>>
            /\ UNCHANGED <<engine, listeners, graph, timers, browser>>
       ELSE LET w == stopAnalysis([Current EXCEPT !.engine.destroyed = TRUE])
            IN  IF w.threw
                  THEN /\ Leaves(w)
                       /\ UNCHANGED <<graph, browser>>
                  ELSE /\ engine' = [w.engine EXCEPT
                                       !.mediaSource = FALSE,
                                       !.elementSource = FALSE,
                                       !.pipeline = 0,
                                       !.audioContext = "null",
                                       !.initialized = FALSE]
                       /\ timers' = w.timers
                       /\ graph' = Disconnect(
                                     Disconnect(
                                       Disconnect(DisconnectSources(graph),
                                                  WorkletNode(engine.pipeline)),
                                       AnalyserNode(engine.pipeline)),
                                     GainNode(engine.pipeline))
                       /\ browser' = [browser EXCEPT !.closed =
                                        IF engine.audioContext = "null" THEN @
                                        ELSE @ \cup {engine.audioContext}]
                       /\ listeners' = NoListeners
                       /\ log' = Append(w.log,
                                        Emit(NoListeners, "destroyed", <<>>))
  /\ UNCHANGED <<initCalls, lastPosition>>

\* new LipSyncEngine(options)
EngineInit ==
  /\ engine \in {NewEngine(o) : o \in EngineOptions}
  /\ listeners = NoListeners
  /\ graph = {}
  /\ initCalls = [resume |-> 0, addModule |-> 0]
  /\ timers = {}
  /\ browser = [inits |-> 0, contexts |-> 0, pipelines |-> 0, closed |-> {},
                inbox |-> <<>>, outbox |-> <<>>]
  /\ log = <<>>
  /\ lastPosition = NoPosition

\* An engine with the default options that is never called.
EngineIdle ==
  /\ engine = NewEngine([disablePlayback |-> FALSE, analysisMode |-> "raf"])
  /\ listeners = NoListeners
  /\ graph = {}
  /\ initCalls = [resume |-> 0, addModule |-> 0]
  /\ timers = {}
  /\ browser = [inits |-> 0, contexts |-> 0, pipelines |-> 0, closed |-> {},
                inbox |-> <<>>, outbox |-> <<>>]
  /\ log = <<>>
  /\ lastPosition = NoPosition

EngineNext ==
  \/ EventEmitter_on /\ UNCHANGED notEngine
  \/ EventEmitter_off /\ UNCHANGED notEngine
  \/ LipSyncEngine_init /\ UNCHANGED notEngine
  \/ LipSyncEngine_init_resumed /\ UNCHANGED notEngine
  \/ LipSyncEngine_init_loaded /\ UNCHANGED notEngine
  \/ LipSyncEngine_feedAudio /\ UNCHANGED notEngine
  \/ LipSyncEngine_attachStream /\ UNCHANGED notEngine
  \/ LipSyncEngine_attachElement /\ UNCHANGED notEngine
  \/ LipSyncEngine_startAnalysis /\ UNCHANGED notEngine
  \/ LipSyncEngine_stopAnalysis /\ UNCHANGED notEngine
  \/ LipSyncEngine_rafTick /\ UNCHANGED notEngine
  \/ LipSyncEngine_intervalTick /\ UNCHANGED notEngine
  \/ LipSyncEngine_onWorkletMessage /\ UNCHANGED notEngine
  \/ LipSyncEngine_setVolume /\ UNCHANGED notEngine
  \/ LipSyncEngine_clearBuffer /\ UNCHANGED notEngine
  \/ LipSyncEngine_play /\ UNCHANGED notEngine
  \/ LipSyncEngine_pause /\ UNCHANGED notEngine
  \/ LipSyncEngine_reset /\ UNCHANGED notEngine
  \/ LipSyncEngine_destroy /\ UNCHANGED notEngine

\* The engine with listeners that call it back.
EngineCallsNext ==
  \/ EventEmitter_on /\ UNCHANGED notEngine
  \/ EventEmitter_on_caller /\ UNCHANGED notEngine
  \/ LipSyncEngine_init /\ UNCHANGED notEngine
  \/ LipSyncEngine_init_resumed /\ UNCHANGED notEngine
  \/ LipSyncEngine_init_loaded /\ UNCHANGED notEngine
  \/ LipSyncEngine_feedAudio /\ UNCHANGED notEngine
  \/ LipSyncEngine_attachStream /\ UNCHANGED notEngine
  \/ LipSyncEngine_attachElement /\ UNCHANGED notEngine
  \/ LipSyncEngine_startAnalysis /\ UNCHANGED notEngine
  \/ LipSyncEngine_stopAnalysis /\ UNCHANGED notEngine
  \/ LipSyncEngine_rafTick /\ UNCHANGED notEngine
  \/ LipSyncEngine_intervalTick /\ UNCHANGED notEngine
  \/ LipSyncEngine_destroy /\ UNCHANGED notEngine

\* The analysis loop with 'viseme' listeners that call the engine back.  A
\* further callback is asked for only while at most MaxLoops are scheduled.
EngineLoopsNext ==
  \/ EventEmitter_on_viseme /\ UNCHANGED notEngine
  \/ LipSyncEngine_init /\ UNCHANGED notEngine
  \/ LipSyncEngine_init_resumed /\ UNCHANGED notEngine
  \/ LipSyncEngine_init_loaded /\ UNCHANGED notEngine
  \/ Cardinality(timers) <= MaxLoops /\ LipSyncEngine_startAnalysis
       /\ UNCHANGED notEngine
  \/ LipSyncEngine_stopAnalysis /\ UNCHANGED notEngine
  \/ Cardinality(timers) <= MaxLoops /\ LipSyncEngine_rafTick
       /\ UNCHANGED notEngine
  \/ LipSyncEngine_intervalTick /\ UNCHANGED notEngine
  \/ LipSyncEngine_destroy /\ UNCHANGED notEngine

\* The engine and its worklet exchanging messages.
EnginePortNext ==
  \/ LipSyncEngine_init /\ UNCHANGED notEngine
  \/ LipSyncEngine_init_resumed /\ UNCHANGED notEngine
  \/ LipSyncEngine_init_loaded /\ UNCHANGED notEngine
  \/ Worklet_postPosition /\ UNCHANGED notEngine
  \/ Worklet_onmessage /\ UNCHANGED notEngine
  \/ LipSyncEngine_port_onmessage /\ UNCHANGED notEngine
  \/ LipSyncEngine_reset_posted /\ UNCHANGED notEngine

\* --------------------------------------------- EventEmitter.once --

\* An EventEmitter on its own, with `listeners` and `log` as its state.  A
\* listener in a Set is a function registered with on() (once = 0) or the
\* wrapper a once() call made for it (once = k > 0, a different k for every
\* wrapper there is); fn names what the function does when called:
\*   "f"      returns;
\*   "again"  emits the event it was called for;
\*   "resub"  registers "f" with once() for the event it is registered for.
Plain(fn) == [fn |-> fn, once |-> 0]
Wrapper(fn, k) == [fn |-> fn, once |-> k]
PlainFns == {"f"}
OnceFns == {"f", "again", "resub"}

\* The event emitted and the keys listeners are registered for; how many
\* listeners are registered at most when one more is registered by a call
\* from outside.
EmittedEvents == {"a"}
ListenerKeys == {"a", "*"}
MaxListeners == 3

\* The listeners registered for all keys together.
Registered(ls) == UNION {{ls[k][i] : i \in DOMAIN ls[k]} : k \in DOMAIN ls}

\* The smallest number carried neither by a wrapper in ls nor by a listener
\* the calls in the log lg were made to.
FreshOnce(ls, lg) ==
  LET used == {l.once : l \in Registered(ls)}
                \cup {lg[i].l.once : i \in DOMAIN lg}
  IN  CHOOSE n \in 1..(Cardinality(used) + 1) : n \notin used

\* What off(event, fn) leaves of the Set: set.delete(fn), then every listener
\* with listener._original === fn is deleted.
OffSetExact(s, arg) == SelectSeq(s, LAMBDA l : l # arg)
OffSet(s, arg) ==
  SelectSeq(s, LAMBDA l :
                 ~(l = arg \/ (l.once > 0 /\ arg.once = 0 /\ l.fn = arg.fn)))

\* EventEmitter.off(event, fn): the Map it leaves; the entry goes with its
\* last listener.
Off(ls, event, arg) ==
  IF event \notin DOMAIN ls THEN ls
  ELSE IF OffSet(ls[event], arg) = <<>>
    THEN [e \in DOMAIN ls \ {event} |-> ls[e]]
  ELSE [ls EXCEPT ![event] = OffSet(@, arg)]

\* What a call on the emitter works on: the Map, for every key how many
\* Sets of that key were dropped from the Map during the call (an emit in
\* progress goes on iterating the Set it started with), and the calls made
\* to listeners so far.
EmitterWorld ==
  [ls |-> listeners, dropped |-> [k \in ListenerKeys |-> 0], log |-> <<>>]

\* off(event, fn) and once(event, fn) made during a call.
OffIn(w, event, arg) ==
  [w EXCEPT !.ls = Off(@, event, arg),
            !.dropped[event] =
               IF event \in DOMAIN w.ls /\ event \notin DOMAIN Off(w.ls, event, arg)
                 THEN @ + 1 ELSE @]
OnceIn(w, event, fn) ==
  [w EXCEPT !.ls = On(@, event, Wrapper(fn, FreshOnce(w.ls, w.log)))]

Called(l, depth) == [kind |-> "call", l |-> l, depth |-> depth]

RECURSIVE emitIn(_, _, _), iterate(_, _, _, _, _, _)

\* The listener l, found in the Set of `key`, is called for `event`.  A
\* wrapper first does this.off(key, wrapper), then calls its function.
callIn(l, w, key, event, depth) ==
  LET w1 == [w EXCEPT !.log = Append(@, Called(l, depth))]
      w2 == IF l.once > 0 THEN OffIn(w1, key, l) ELSE w1
  IN  IF l.fn = "again" THEN emitIn(w2, event, depth + 1)
      ELSE IF l.fn = "resub" THEN OnceIn(w2, key, "f")
      ELSE w2

\* for (const fn of set) fn(...args), on the Set the loop started with: a
\* listener deleted before its turn is skipped, one added during the loop is
\* called in its turn.
iterate(w, key, started, visited, event, depth) ==
  IF key \notin DOMAIN w.ls \/ w.dropped[key] # started THEN w
  ELSE LET rest == SelectSeq(w.ls[key], LAMBDA l : l \notin visited)
       IN  IF rest = <<>> THEN w
           ELSE iterate(callIn(Head(rest), w, key, event, depth), key,
                        started, visited \cup {Head(rest)}, event, depth)

\* EventEmitter.emit(event): the listeners of the event, then those of '*'.
emitIn(w, event, depth) ==
  LET w1 == iterate(w, event, w.dropped[event], {}, event, depth)
  IN  iterate(w1, "*", w1.dropped["*"], {}, event, depth)

\* The head of the log of a call: which method was called, with what.
Op(name, event, arg) ==
  [kind |-> "op", op |-> name, event |-> event, arg |-> arg]

\* on(event, fn)
Emitter_on ==
  /\ Cardinality(Registered(listeners)) < MaxListeners
  /\ \E event \in ListenerKeys, fn \in PlainFns :
       /\ listeners' = On(listeners, event, Plain(fn))
       /\ log' = <<Op("on", event, Plain(fn))>>

\* once(event, fn)
Emitter_once ==
  /\ Cardinality(Registered(listeners)) < MaxListeners
  /\ \E event \in ListenerKeys, fn \in OnceFns :
       /\ listeners' = On(listeners, event,
                          Wrapper(fn, FreshOnce(listeners, <<>>)))
       /\ log' = <<Op("once", event, Plain(fn))>>

\* off(event, fn)
Emitter_off ==
  \E event \in ListenerKeys, fn \in OnceFns :
    /\ listeners' = Off(listeners, event, Plain(fn))
    /\ log' = <<Op("off", event, Plain(fn))>>

\* The function once() returned is called: () => this.off(event, wrapper).
Emitter_unsubscribe ==
  \E event \in DOMAIN listeners :
    \E i \in DOMAIN listeners[event] :
      /\ listeners[event][i].once > 0
      /\ listeners' = Off(listeners, event, listeners[event][i])
      /\ log' = <<Op("unsubscribe", event, listeners[event][i])>>

\* emit(event)
Emitter_emit ==
  \E event \in EmittedEvents :
    LET w == emitIn(EmitterWorld, event, 0)
    IN  /\ listeners' = w.ls
        /\ log' = <<Op("emit", event, Plain("f"))>> \o w.log

EmitterNext ==
  \/ Emitter_on /\ UNCHANGED <<engine, graph, initCalls, timers, browser,
                               lastPosition>> /\ UNCHANGED notEngine
  \/ Emitter_once /\ UNCHANGED <<engine, graph, initCalls, timers, browser,
                                 lastPosition>> /\ UNCHANGED notEngine
  \/ Emitter_off /\ UNCHANGED <<engine, graph, initCalls, timers, browser,
                                lastPosition>> /\ UNCHANGED notEngine
  \/ Emitter_unsubscribe /\ UNCHANGED <<engine, graph, initCalls, timers,
                                        browser, lastPosition>>
       /\ UNCHANGED notEngine
  \/ Emitter_emit /\ UNCHANGED <<engine, graph, initCalls, timers, browser,
                                 lastPosition>> /\ UNCHANGED notEngine

\* ------------------------------------------------- WebSocket proxy --

\* How many messages a client sends, how many the upstream sends.
MaxMsgs == 3

\* wss.on('connection', (clientWs) => ...): the state of one connection once
\* the handler has returned.  client and upstream are the readyState of the
\* two sockets; the messages of the client are numbered 1, 2, ... in the
\* order received.  History kept for stating properties: received counts the
\* client's messages, receivedOpen those that arrived while the upstream was
\* connecting or open, sent lists what upstream.send() put on the open
\* upstream socket, flushed counts the buffered messages sent on 'open',
\* forwarded the upstream messages sent to the client.
NewConnection ==
  [client |-> "open", upstream |-> "connecting", upstreamReady |-> FALSE,
   pendingMessages |-> <<>>, received |-> 0, receivedOpen |-> 0,
   sent |-> <<>>, flushed |-> 0, forwarded |-> 0]

\* upstream.send(msg) on the socket in state st: a socket that is closing or
\* closed transmits nothing.
UpstreamSend(st, sentSoFar, msg) ==
  IF st = "open" THEN Append(sentSoFar, msg) ELSE sentSoFar

\* for (const msg of pendingMessages) upstream.send(msg)
RECURSIVE FlushNewestFirst(_, _, _)
FlushNewestFirst(st, sentSoFar, pending) ==
  IF pending = <<>> THEN sentSoFar
  ELSE FlushNewestFirst(st,
                        UpstreamSend(st, sentSoFar, pending[Len(pending)]),
                        SubSeq(pending, 1, Len(pending) - 1))
RECURSIVE Flush(_, _, _)
Flush(st, sentSoFar, pending) ==
  IF pending = <<>> THEN sentSoFar
  ELSE Flush(st, UpstreamSend(st, sentSoFar, Head(pending)), Tail(pending))

\* upstream.on('open')
Upstream_open ==
  /\ proxy.upstream = "connecting"
  /\ proxy' = [proxy EXCEPT
                 !.upstream = "open",
                 !.upstreamReady = TRUE,
                 !.sent = Flush("open", @, proxy.pendingMessages),
                 !.flushed = Len(proxy.pendingMessages),
                 !.pendingMessages = <<>>]

\* clientWs.on('message'): messages arrive until the client socket is closed.
Client_message ==
  /\ proxy.client # "closed"
  /\ proxy.received < MaxMsgs
  /\ LET msg == proxy.received + 1
     IN  proxy' = [proxy EXCEPT
                     !.received = msg,
                     !.receivedOpen =
                        IF proxy.upstream \in {"connecting", "open"}
                          THEN @ + 1 ELSE @,
                     !.sent = IF proxy.upstreamReady
                                THEN UpstreamSend(proxy.upstream, @, msg)
                                ELSE @,
                     !.pendingMessages = IF proxy.upstreamReady THEN @
                                         ELSE Append(@, msg)]

\* upstream.on('message')
Upstream_message ==
  /\ proxy.upstream = "open"
  /\ proxy.forwarded < MaxMsgs
  /\ proxy' = [proxy EXCEPT !.forwarded =
                 IF proxy.client = "open" THEN @ + 1 ELSE @]

\* clientWs.close(...) when clientWs.readyState === WebSocket.OPEN
CloseClientIfOpen(c) == IF c = "open" THEN "closing" ELSE c

\* upstream.close() when upstream.readyState === WebSocket.OPEN
CloseUpstreamIfOpen(u) == IF u = "open" THEN "closing" ELSE u

\* upstream.on('error'): the socket fails while connecting or while open; it
\* is closing when the handler runs and 'close' follows.
Upstream_error ==
  /\ proxy.upstream \in {"connecting", "open"}
  /\ proxy' = [proxy EXCEPT !.upstream = "closing",
                            !.client = CloseClientIfOpen(@)]

\* upstream.on('close'): the peer closed an open socket, or the closing of
\* the socket has finished.
Upstream_close ==
  /\ proxy.upstream \in {"open", "closing"}
  /\ proxy' = [proxy EXCEPT !.upstream = "closed",
                            !.client = CloseClientIfOpen(@)]

\* clientWs.on('close')
Client_close ==
  /\ proxy.client \in {"open", "closing"}
  /\ proxy' = [proxy EXCEPT !.client = "closed",
                            !.upstream = CloseUpstreamIfOpen(@)]

\* clientWs.on('error'): the socket is closing when the handler runs and
\* 'close' follows.
Client_error ==
  /\ proxy.client = "open"
  /\ proxy' = [proxy EXCEPT !.client = "closing",
                            !.upstream = CloseUpstreamIfOpen(@)]

ProxyInit == proxy = NewConnection

\* A connection on which nothing happens.
ProxyIdle == proxy = NewConnection

ProxyNext ==
  \/ Upstream_open /\ UNCHANGED notProxy
  \/ Client_message /\ UNCHANGED notProxy
  \/ Upstream_message /\ UNCHANGED notProxy
  \/ Upstream_error /\ UNCHANGED notProxy
  \/ Upstream_close /\ UNCHANGED notProxy
  \/ Client_close /\ UNCHANGED notProxy
  \/ Client_error /\ UNCHANGED notProxy

\* --------------------------------------------------------- specifications --

\* A RingBuffer alone (the analyzer stays as constructed).
InitRing ==
  RingInit /\ AnalyzerIdle /\ SpscIdle /\ ClassifierIdle /\ EngineIdle
    /\ ProxyIdle

SpecRingAny == InitRing /\ [][RingNextAny]_vars

SpecRing == InitRing /\ [][RingNext]_vars

\* A RingBuffer constructed with any capacity argument.
InitRingNew ==
  RingBuffer_new /\ AnalyzerIdle /\ SpscIdle /\ ClassifierIdle /\ EngineIdle
    /\ ProxyIdle

SpecRingNew == InitRingNew /\ [][RingNewNext]_vars

\* A FrequencyAnalyzer alone (the ring buffer stays as constructed).
InitAnalyzer ==
  AnalyzerInit /\ RingIdle /\ SpscIdle /\ ClassifierIdle /\ EngineIdle
    /\ ProxyIdle

SpecAnalyzer == InitAnalyzer /\ [][AnalyzerNext]_vars

\* A FrequencyAnalyzer alone, observed over resets.
\* The transition tracking of _emitViseme on every pair of visemes.
SpecTransition == InitAnalyzer /\ [][TransitionNext]_vars

SpecAnalyzerLife == InitAnalyzer /\ [][AnalyzerLifeNext]_vars

\* A RingBuffer shared by a feeder and a renderer (the analyzer stays as
\* constructed).
SpecSPSC == InitRing /\ [][SpscNext]_vars

\* One _classifyViseme call (everything else stays as constructed).
InitClassifier ==
  ClassifierInit /\ RingIdle /\ AnalyzerIdle /\ SpscIdle /\ EngineIdle
    /\ ProxyIdle

SpecClassify == InitClassifier /\ [][ClassifierNext]_vars

\* A LipSyncEngine in its browser (the objects above stay as constructed).
InitEngine ==
  EngineInit /\ RingIdle /\ AnalyzerIdle /\ SpscIdle /\ ClassifierIdle
    /\ ProxyIdle

SpecEngine == InitEngine /\ [][EngineNext]_vars

SpecEngineCalls == InitEngine /\ [][EngineCallsNext]_vars

SpecEngineLoops == InitEngine /\ [][EngineLoopsNext]_vars

SpecEnginePort == InitEngine /\ [][EnginePortNext]_vars

\* An EventEmitter alone: the engine that extends it is never called.
InitEmitter ==
  EngineIdle /\ RingIdle /\ AnalyzerIdle /\ SpscIdle /\ ClassifierIdle
    /\ ProxyIdle

SpecEmitter == InitEmitter /\ [][EmitterNext]_vars

\* One client connection of the WebSocket proxy (the objects above stay as
\* constructed).
InitProxy ==
  ProxyInit /\ RingIdle /\ AnalyzerIdle /\ SpscIdle /\ ClassifierIdle
    /\ EngineIdle

SpecProxy == InitProxy /\ [][ProxyNext]_vars

\* The same connection where a socket that is being opened does open unless
\* it fails first, and a socket that is closing does get closed.  Nothing
\* makes the peer of an open socket close it.
SpecProxyFair ==
  /\ InitProxy
  /\ [][ProxyNext]_vars
  /\ WF_vars(Upstream_open /\ UNCHANGED notProxy)
  /\ WF_vars(proxy.upstream = "closing" /\ Upstream_close
               /\ UNCHANGED notProxy)
  /\ WF_vars(proxy.client = "closing" /\ Client_close /\ UNCHANGED notProxy)

\* ------------------------------------------------ RingBuffer properties --

\* What read(new Float32Array(n), 0, n) would return in the state
\* (buf, rp, avail): the samples it copies, in order.
NextRead(buf, rp, avail, n) ==
  ReadLoop(buf, rp, Zeros(n), 0, 0, ReadCount(n, 0, TRUE, n, avail)).target

\* The unread samples, oldest first, as the cursor arithmetic names them.
Unread(buf, rp, avail) ==
  [i \in 1..avail |-> buf[(rp + i - 1) % capacity]]

\* The first n elements of s, the last n elements of s.
Take(s, n) == [i \in 1..n |-> s[i]]
LastN(s, n) == [i \in 1..n |-> s[Len(s) - n + i]]

\* C1: after every call, with arbitrary arguments, 0 <= available <= capacity.
C1_AvailableInRange == 0 <= available /\ available <= capacity

C23_PeekIsReadWithoutConsuming ==
  [][ /\ call'.op = "peek"
        => ( /\ ~call'.threw
             /\ call'.ret = Min(call'.count, available)
             /\ call'.out = Take(Unread(buffer, readPtr, available), call'.ret)
             /\ UNCHANGED <<readPtr, writePtr, available, buffer>> )
      /\ ( /\ call.op = "peek"
           /\ call'.op = "read"
           /\ call'.offset = 0
           /\ call'.len = call.count
           /\ (call'.hasCount => call'.count = call.count) )
        => ( /\ call'.ret = call.ret
             /\ Take(call'.out, call.ret) = call.out ) ]_vars

\* C23, its case: a peek that asked for more than is buffered returned two
\* or more samples that wrap around the end of the array.
C23_Witness ==
  /\ call.op = "peek" /\ ~call.threw
  /\ call.ret >= 2 /\ call.count > call.ret
  /\ readPtr > 0
  /\ call.out[1] # call.out[2]

\* C28: no feeder-side call (write, writeOverflow) changes the read cursor
\* and no renderer-side call (read, readOne, peek) changes the write cursor.
C28_OneOwnerPerCursor ==
  [][ /\ call'.op \in {"write", "writeOverflow"} => readPtr' = readPtr
      /\ call'.op \in {"read", "readOne", "peek"} => writePtr' = writePtr
    ]_vars

\* C31: in every state reachable by write, writeOverflow, read, readOne, peek
\* and clear, both cursors lie in [0, capacity) and
\* writePtr = (readPtr + available) mod capacity.
C31_CursorsConsistent ==
  /\ readPtr \in 0..(capacity - 1)
  /\ writePtr \in 0..(capacity - 1)
  /\ writePtr = (readPtr + available) % capacity

\* C10: read(target, offset, count) returns r = min(count, available) with
\* r >= 0, copies the r oldest unread samples in order into target (from
\* offset on), decreases available by exactly r and does not throw, for every
\* count and offset.
C10_ReadContract ==
  [][ call'.op = "read"
      => LET c == IF call'.hasCount THEN call'.count
                  ELSE call'.len - call'.offset
             r == call'.ret
         IN  /\ r = Min(c, available)
             /\ r >= 0
             /\ \A i \in 0..(r - 1) :
                  /\ call'.offset + i < call'.len
                  /\ call'.out[call'.offset + i + 1]
                       = buffer[(readPtr + i) % capacity]
             /\ available' = available - r
             /\ ~call'.threw ]_vars

\* --------------------------------------------- FrequencyAnalyzer properties --

\* C4: analyze() changes the held viseme on a frame the classifier ran on
\* only if the proposed label differed from the held viseme on that frame and
\* on each of the holdFrames - 1 frames immediately before it (a frame the
\* silence gate answered counts as proposing "sil").
C4_ChangeNeedsHoldFrames ==
  (hist.changed /\ ~hist.gated) => hist.diffRun >= opts.holdFrames

C6_SilenceGate ==
  (frame.frame > 0 /\ smoothedAmplitude < opts.silenceThreshold)
    => ( /\ frame.viseme = "sil"
         /\ currentViseme = "sil"
         /\ frame.transition.to = "sil"
         /\ hist.gated )

\* C6, its case: the gate closed on a held viseme other than "sil", with
\* the hold counter running and energy in the bands.
C6_Witness ==
  /\ frame.frame > 0 /\ smoothedAmplitude < opts.silenceThreshold
  /\ hist.heldBefore # "sil"
  /\ hist.counterBefore > 0
  /\ smoothedBands.high > 0
  /\ frame.viseme = "sil"

\* The frame shows the mouth at rest: "sil", the blend finished, the shape
\* the static silence shape (in millionths).
Settled ==
  /\ frame.viseme = "sil"
  /\ frame.transition.progress = 1000
  /\ frame.shape = Shape(0, 500000, 0)

\* Zero-input frames after which every analyzer has settled.
SettleFrames == 11

\* C7: an analyzer fed zero loudness and all-zero bands on every cycle since
\* construction or reset() returns "sil" with transition progress 1 and the
\* silence shape on every one of them; from any other state, zero input on
\* every cycle yields such frames from the SettleFrames-th cycle on.
C7_SilenceSettles ==
  frame.frame > 0
    => ( /\ hist.onlyZeros => Settled
         /\ hist.zeroRun >= SettleFrames => Settled )

\* C7, its case: an analyzer that held another viseme was fed zero input
\* and came to rest on the SettleFrames-th cycle, not before.
C7_Witness ==
  /\ frame.frame > 0
  /\ hist.everChanged /\ ~hist.onlyZeros
  /\ hist.zeroRun = SettleFrames
  /\ Settled
  /\ transitionProgress = 1000 /\ previousViseme # "sil"

\* C13: every frame analyze() returns through the silence gate has
\* confidence 0.
C13_GateConfidenceZero ==
  (frame.frame > 0 /\ hist.gated) => frame.confidence.num = 0

\* C14: after reset(), whatever calls preceded it, the analyzer's fields
\* equal those of a freshly constructed analyzer with the same options (so
\* the frames it returns afterwards are those a fresh analyzer returns), and
\* a second reset() changes nothing.
C14_ResetIsFresh ==
  [][ FrequencyAnalyzer_reset
      => ( /\ Constructed'
           /\ opts' = opts
           /\ Constructed => UNCHANGED anVars ) ]_vars

\* C14, its case: an analyzer that had returned more than two frames is,
\* after reset(), as constructed.
C14_Witness ==
  /\ returned > 2
  /\ frameCount = 0
  /\ Constructed

\* C15, as claimed: over any sequence of analyze() and reset() calls, the
\* frame counter of each returned frame is strictly greater than the frame
\* counter of every frame returned earlier.
C15_CounterAsClaimed ==
  [][ frameCount' # frameCount /\ frame'.frame > 0
      => frame'.frame > returned ]_vars

\* C15, amended: a returned frame carries the number of analyze() calls made
\* since construction or the last reset(): one more than the frame returned
\* before it when no reset() came between them, 1 on the first call after a
\* reset(), which sets the counter back to 0.
C15_CounterSinceReset ==
  [][ /\ FrequencyAnalyzer_analyze
        => ( /\ frame'.frame = frameCount + 1
             /\ frameCount' = frameCount + 1
             /\ frame.frame > 0 => frame'.frame = frame.frame + 1 )
      /\ FrequencyAnalyzer_reset => frameCount' = 0 ]_vars

\* C15, its case: the first frame after a reset() carries 1, after frames
\* with larger counters were returned.
C15_Witness ==
  /\ frame.frame = 1
  /\ returned > 1

\* An analyze() call returned: the frame counter went up by one.
Analyzed == frameCount' = frameCount + 1

\* The weight the claims give a pair: the table's, 0.35 for a pair the table
\* does not list.
ClaimedWeight(from, to) ==
  IF <<from, to>> \in DOMAIN TRANSITION_WEIGHTS
    THEN TRANSITION_WEIGHTS[<<from, to>>] ELSE 350

\* C24: an analyze() call that changes the held viseme from X to Y returns
\* a frame with transition.from = X, transition.to = Y and progress 0; a call
\* that keeps the held viseme keeps previousViseme and moves progress to
\* min(1, progress + (1 - w) * 0.3), w the weight of (previous, current).
C24_TransitionTracking ==
  [][Analyzed =>
       IF currentViseme' # currentViseme
         THEN /\ frame'.transition = [from |-> currentViseme,
                                      to |-> currentViseme',
                                      progress |-> 0]
              /\ previousViseme' = currentViseme
              /\ transitionProgress' = 0
         ELSE /\ previousViseme' = previousViseme
              /\ 10 * transitionProgress' =
                   Min(10000, 10 * transitionProgress
                                + 3 * (1000 - ClaimedWeight(previousViseme,
                                                            currentViseme)))
              /\ frame'.transition = [from |-> previousViseme,
                                      to |-> currentViseme,
                                      progress |-> transitionProgress']]_vars

\* C24, its cases: progress advanced below 1 on a pair the table lists with
\* a weight other than the default.
C24_Witness ==
  /\ frameCount > 0
  /\ <<previousViseme, currentViseme>> \in DOMAIN TRANSITION_WEIGHTS
  /\ 0 < transitionProgress /\ transitionProgress < 1000
  /\ frame.transition.progress = transitionProgress

\* C25: transition progress stays within [0, 1]; a call that keeps the
\* held viseme never lowers it, and only a call that changes the held viseme
\* does; for every ordered pair of visemes it is 1 after at most 9 calls in
\* a row that keep the held viseme.
C25_ProgressReachesOne ==
  /\ [](/\ 0 <= transitionProgress /\ transitionProgress <= 1000
        /\ frame.transition.progress >= 0
        /\ frame.transition.progress <= 1000
        /\ hist.keptRun <= 9
        /\ (hist.keptRun = 9 => transitionProgress = 1000))
  /\ [][/\ currentViseme' = currentViseme
            => transitionProgress' >= transitionProgress
        /\ transitionProgress' < transitionProgress
            => (currentViseme' # currentViseme
                  /\ transitionProgress' = 0)]_vars

\* C25, its case: a pair of visemes for which progress reached 1 on the
\* ninth call that kept the held viseme, not before.
C25_Witness ==
  /\ hist.keptRun = 9
  /\ transitionProgress = 1000
  /\ previousViseme # currentViseme
  /\ frame.transition.progress = 1000

\* C26: after every analyze() call that changed the held viseme, and after
\* every call whose proposed label was the held viseme, holdCounter is 0.
C26_NoStaleCount ==
  (frame.frame > 0 /\ (hist.changed \/ hist.proposed = hist.heldBefore))
    => holdCounter = 0

C30_HoldCounterRange ==
  opts.holdFrames >= 1 =>
    (0 <= holdCounter /\ holdCounter <= opts.holdFrames - 1)

\* C30, its case: the counter is at its largest, one short of holdFrames,
\* after a frame that kept the held viseme against a differing proposal.
C30_Witness ==
  /\ opts.holdFrames >= 2
  /\ holdCounter = opts.holdFrames - 1
  /\ frame.frame > 0
  /\ ~hist.gated /\ hist.proposed # currentViseme

\* ------------------------------------------- feeder/renderer properties --

\* C8: with one feeder in write() and one renderer in read(), interleaved a
\* sample copy or an atomic update of available at a time, available stays
\* within 0..capacity and the samples reads have returned are a prefix of the
\* samples writes have accepted, in order; the accepted samples not yet
\* returned are the unread samples of the buffer whenever the renderer is
\* outside read().
C8_SpscPrefix ==
  /\ 0 <= available /\ available <= capacity
  /\ Len(delivered) <= Len(accepted)
  /\ \A k \in 1..Len(delivered) : delivered[k] = accepted[k]
  /\ renderer.pc = "idle"
       => Unread(buffer, readPtr, available)
            = SubSeq(accepted, Len(delivered) + 1, Len(accepted))

\* C8, its case: the feeder and the renderer have both copied samples and
\* neither has updated available yet, on a buffer that has wrapped around,
\* after earlier reads.
C8_Witness ==
  /\ feeder.pc = "copy" /\ feeder.toWrite > 0 /\ feeder.i = feeder.toWrite
  /\ renderer.pc = "copy" /\ renderer.toRead > 0
  /\ renderer.i = renderer.toRead
  /\ Len(delivered) > 0
  /\ Len(accepted) > capacity

\* --------------------------------------------- _classifyViseme properties --

\* C11: for every combination of band energies, intensity and smoothed
\* amplitude in [0,1], _classifyViseme returns one label of the 15-label
\* extended set and a confidence in [0,1], a quotient whose divisor is not
\* zero.
C11_ClassifierTotal ==
  classified # NoResult
    => ( /\ classified.viseme \in EXTENDED_VISEME_KEYS
         /\ classified.confidence.den > 0
         /\ 0 <= classified.confidence.num
         /\ classified.confidence.num <= classified.confidence.den )

\* C11, its case: bands with energy on which no rule of the cascade fired,
\* so that the call came out at the end of the intensity fallback.
C11_Witness ==
  /\ classified # NoResult
  /\ input.bands.sub + input.bands.low + input.bands.mid
       + input.bands.high + input.bands.veryHigh >= 10000
  /\ input.intensity <= 150000
  /\ classified = [viseme |-> "sil", confidence |-> Conf(5, 10)]

\* C12: on the bands {sub 0.02, low 0.03, mid 0.05, high 0.30,
\* veryHigh 0.35}, whatever the intensity, _classifyViseme returns "SS" with
\* confidence (high + veryHigh) / (total + 0.001) = 0.65 / 0.751.
C12_SibilantScenario ==
  (classified # NoResult /\ input.bands = SibilantBands)
    => ( /\ classified.viseme = "SS"
         /\ classified.confidence = Conf(650000, 751000) )

\* C12, its case: the scenario's bands were classified at an intensity above
\* every vowel floor.
C12_Witness ==
  /\ classified # NoResult
  /\ input.bands = SibilantBands
  /\ input.intensity > 500000
  /\ classified.viseme = "SS"

\* The results of the consonant rules (sibilant, fricative, plosive, nasal)
\* and of the vowel rules with the intensity fallback cascade.
ConsonantResult(r) == r.viseme \in {"SS", "CH", "FF", "PP", "DD", "nn"}
VowelResult(r) ==
  \/ r.viseme \in {"aa", "E", "O", "I", "U"}
  \/ r.viseme = "sil" /\ r.confidence = Conf(5, 10)

\* Every confidence a consonant rule returns on the grid.
ConsonantConfidences ==
  {r.confidence :
     r \in {q \in {classifyViseme(i.bands, i.intensity, i.amplitude) :
                     i \in ClassifierInputs} : ConsonantResult(q)}}

\* a < b for confidences kept as fractions with positive divisors.
LessConf(a, b) == a.num * b.den < b.num * a.den

\* C29: every confidence returned by a vowel rule or the fallback cascade is
\* lower than every confidence returned by a consonant rule.
C29_VowelsBelowConsonants ==
  VowelResult(classified) =>
    \A c \in ConsonantConfidences : LessConf(classified.confidence, c)

\* ------------------------------------------------ LipSyncEngine properties --

\* The 'viseme' frames the last call emitted.
VisemeFrames ==
  {log[i].data : i \in {j \in 1..Len(log) : log[j].kind = "emit"
                                           /\ log[j].event = "viseme"}}

\* C16: at every moment playbackTimeMs and bufferLevel are the timeMs and
\* bufferLevel of the last 'position' message received (0 when none came
\* since construction or the last reset()), and every 'viseme' frame emitted
\* carries these values.
C16_PositionReflected ==
  /\ engine.playbackTimeMs = lastPosition.timeMs
  /\ engine.bufferLevel = lastPosition.bufferLevel
  /\ \A f \in VisemeFrames : f = lastPosition

\* C16, its case: a 'viseme' frame is emitted after a 'position' message
\* with timeMs 9 and bufferLevel 5 was the last one received.
C16_Witness ==
  /\ lastPosition = [timeMs |-> 9, bufferLevel |-> 5]
  /\ VisemeFrames # {}

\* The listeners the last call delivered `event` to, one sequence per emit.
Deliveries(event) ==
  SelectSeq(log, LAMBDA entry : entry.kind = "emit" /\ entry.event = event)

\* C17: destroy() on an engine that is not destroyed delivers 'destroyed'
\* once, to every listener registered for it when destroy() was called; a
\* destroy() on a destroyed engine delivers nothing.
C17_DestroyedDelivered ==
  [][LipSyncEngine_destroy =>
       IF engine.destroyed
         THEN \A i \in 1..Len(Deliveries("destroyed")') :
                Deliveries("destroyed")'[i].to = <<>>
         ELSE /\ Len(Deliveries("destroyed")') = 1
              /\ Deliveries("destroyed")'[1].to
                   = EmitTo(listeners, "destroyed")]_vars

\* The nodes audio is produced at: the worklet nodes init() made, the
\* attached sources.
WorkletNodes == {WorkletNode(k) : k \in 1..browser.pipelines}

\* C18: no path leads from the media-stream source to the destination of
\* the context.
C18_StreamNotPlayed ==
  Destination \notin Reaches(graph, {MediaSource})

\* C19: with disablePlayback, no path leads from a worklet node or an
\* attached source to the destination of the context.
C19_NoOutputWhenDisabled ==
  engine.opts.disablePlayback =>
    Destination \notin
      Reaches(graph, WorkletNodes \cup {MediaSource, ElementSource})

\* C20: an AudioContext the caller passed to init(existingContext) is never
\* closed by the engine.
C20_GivenContextLeftOpen ==
  "given" \notin browser.closed

\* A call of one of the methods that start with _ensureInitialized().
GuardedCall ==
  \/ LipSyncEngine_feedAudio
  \/ LipSyncEngine_attachStream
  \/ LipSyncEngine_attachElement
  \/ LipSyncEngine_startAnalysis

\* C21: feedAudio, attachStream, attachElement and startAnalysis called on
\* an engine that is not initialized or is destroyed throw, and leave the
\* fields of the engine, the audio graph, the scheduled callbacks and the
\* listeners as they were; nothing is posted and nothing is emitted.
C21_GuardedCallsThrow ==
  [][(GuardedCall /\ (~engine.initialized \/ engine.destroyed)) =>
       /\ log' = <<Thrown>>
       /\ UNCHANGED <<engine, graph, timers, listeners>>]_vars

\* ------------------------------------------ RingBuffer construction --

\* C22: every RingBuffer that exists has a capacity above 0: the constructor
\* throws for every capacity <= 0.
C22_CapacityPositive ==
  Exists => capacity > 0

\* C32: after any sequence of startAnalysis() and stopAnalysis() calls, also
\* from inside a 'viseme' listener during a tick, at most one analysis loop
\* is scheduled while the engine is analyzing.
C32_AtMostOneLoop == engine.analyzing => Cardinality(timers) <= 1

\* Does the log of a call hold an emit of the event; the last of the events
\* 'analysisStarted' and 'analysisStopped' in it ("none" without one).
EmittedIn(l, event) ==
  \E i \in 1..Len(l) : l[i].kind = "emit" /\ l[i].event = event
LoopEvents(l) ==
  SelectSeq(l, LAMBDA x : /\ x.kind = "emit"
                          /\ x.event \in {"analysisStarted",
                                          "analysisStopped"})
LastLoopEvent(l) ==
  IF LoopEvents(l) = <<>> THEN "none"
  ELSE LoopEvents(l)[Len(LoopEvents(l))].event

\* C33: once stopAnalysis() or destroy() has stopped the analysis, no
\* 'viseme' is emitted until startAnalysis() is called again, whichever
\* callback fires: a call emits 'viseme' only when the engine was analyzing,
\* a call that ends on stopping leaves it not analyzing, and a call that
\* neither starts nor stops does not change whether it is analyzing.
C33_NoVisemeAfterStop ==
  [][ /\ EmittedIn(log', "viseme") => engine.analyzing
      /\ LastLoopEvent(log') = "analysisStopped" => ~engine'.analyzing
      /\ LastLoopEvent(log') = "none"
           => engine'.analyzing = engine.analyzing ]_vars

\* A callback scheduled before the analysis was stopped has fired on the
\* stopped engine, and nothing was emitted.
C33_Witness ==
  /\ engine.initialized
  /\ ~engine.analyzing
  /\ engine.animFrameId # 0
  /\ timers = {}
  /\ log = <<>>

\* C34: init() builds the audio pipeline at most once per engine, also when
\* it is called again while an earlier call is still in an await: at most one
\* AudioContext is created and at most one pipeline (worklet node, analyser,
\* analyzer) is built, 'initialized' being emitted once per pipeline built.
C34_PipelineBuiltOnce ==
  /\ browser.contexts <= 1
  /\ browser.pipelines <= 1

\* C35: once destroy() has been called the engine is not initialized in any
\* later state and holds no pipeline, whatever init() call was in flight.
C35_DestroyedStaysUninitialized ==
  engine.destroyed => (~engine.initialized /\ engine.pipeline = 0)

\* C36: after reset() the engine's playbackTimeMs and bufferLevel never take
\* a value from a 'position' message the worklet posted before it processed
\* the 'reset': the delivery of such a message leaves both fields as they are.
C36_StalePositionIgnored ==
  [][ ( /\ browser.inbox # <<>>
        /\ browser'.inbox = Tail(browser.inbox)
        /\ Head(browser.inbox).stale )
      => /\ engine'.playbackTimeMs = engine.playbackTimeMs
         /\ engine'.bufferLevel = engine.bufferLevel ]_vars

\* ------------------------------------------------------ proxy properties --

\* The messages 1 .. n in the order received.
FirstMessages(n) == [i \in 1..n |-> i]

\* C37, as claimed: on a connection whose upstream opened, every message
\* received from the client has been sent upstream exactly once, in the order
\* received; nothing is sent before the upstream opens.
C37_AsClaimed ==
  /\ ~proxy.upstreamReady => proxy.sent = <<>>
  /\ proxy.upstreamReady => proxy.sent = FirstMessages(proxy.received)

\* C37: nothing is sent before the upstream opens, the messages received
\* until then are buffered in arrival order, and once it has opened the
\* messages sent upstream are exactly those that arrived while the upstream
\* was connecting or open, once each and in arrival order, the buffered ones
\* first.
C37_SentWhileUpstreamUsable ==
  /\ ~proxy.upstreamReady
       => /\ proxy.sent = <<>>
          /\ proxy.pendingMessages = FirstMessages(proxy.received)
  /\ proxy.upstreamReady
       => /\ proxy.sent = FirstMessages(proxy.receivedOpen)
          /\ proxy.pendingMessages = <<>>
          /\ proxy.flushed <= Len(proxy.sent)

\* Two messages were buffered and sent when the upstream opened, and a later
\* one was sent after them.
C37_Witness ==
  /\ proxy.upstreamReady
  /\ proxy.flushed >= 2
  /\ Len(proxy.sent) > proxy.flushed

\* C38: whenever the client connection has closed, the upstream connection
\* is eventually closed, and it is sent no client message after the client
\* closed, also when the client closes while the upstream is still opening.
C38_UpstreamClosedWithClient ==
  /\ (proxy.client = "closed") ~> (proxy.upstream = "closed")
  /\ [][proxy.client = "closed" => proxy'.sent = proxy.sent]_vars

\* -------------------------------------------------- emitter properties --

\* The wrappers of once() registered under a key; how many calls the log
\* holds to the listener l.
WrappersOf(ls, key) ==
  IF key \in DOMAIN ls
    THEN {ls[key][i] : i \in {j \in DOMAIN ls[key] : ls[key][j].once > 0}}
    ELSE {}
Calls(lg, l) ==
  Cardinality({i \in DOMAIN lg : lg[i].kind = "call" /\ lg[i].l = l})

=============================================================================
